---- MODULE Spec2Model ----
(***************************************************************************)
(* Model of devkit/docker/build.py: the content-addressable build-graph    *)
(* orchestrator for container images.  One run of main() is one behaviour: *)
(* arguments and documents are read, an order is computed, and the images  *)
(* are processed one at a time, every container-runtime command being one  *)
(* step of the run.                                                        *)
(***************************************************************************)
EXTENDS Integers, Sequences, FiniteSets, TLC

\* ------------------------------------------------------------------------
\* Bounds and input domains
\* ------------------------------------------------------------------------

\* Largest number of dependency entries in all declarations together.
MaxDeps == 2

\* Largest exit status a failing container-runtime command reports.
MaxReturnCode == 2

\* Names an image declaration may carry, in declaration order.
ImageNames == <<"a", "b", "c">>

\* A name no declaration document declares.
Undeclared == "x"

\* Build-argument names; "BASE=" sorts before "FROM=" as byte strings.
ArgNames == <<"BASE", "FROM">>

\* --search-path values, in command-line order.
SearchPaths == <<"p1", "p2">>

\* Registry prefixes a settings document may carry.
Registries == {"my-repo"}

\* Python's None.
None == "None"

ARCH == "amd64"

Range(s) == {s[i] : i \in DOMAIN s}

AllNames == Range(ImageNames) \cup {Undeclared}

\* ------------------------------------------------------------------------
\* Declarations
\* ------------------------------------------------------------------------

\* A dependency map: build-arg name -> image name, in insertion order, as a
\* sequence of <<arg name, image name>> with pairwise distinct arg names.
DepMaps(names) ==
    LET args == DOMAIN ArgNames
    IN  {<<>>}
        \cup {<<<<ArgNames[i], d>>>> : i \in args, d \in names}
        \cup {<<<<ArgNames[p[1]], q[1]>>, <<ArgNames[p[2]], q[2]>>>> :
                p \in {r \in args \X args : r[1] # r[2]}, q \in names \X names}

RECURSIVE SumLen(_, _)
SumLen(f, keys) ==
    IF keys = {} THEN 0
    ELSE LET k == CHOOSE k \in keys : TRUE
         IN  Len(f[k]) + SumLen(f, keys \ {k})

\* The declaration maps load_image_configs can return: the first k names
\* declared, each with a dependency map over declared names and Undeclared.
ImageConfigsMaps ==
    UNION {
        LET declared == {ImageNames[i] : i \in 1..k}
        IN  {m \in [declared -> DepMaps(declared \cup {Undeclared})] :
                SumLen(m, declared) <= MaxDeps}
        : k \in 0..Len(ImageNames)}

\* set(conf["deps"].values())
DepValues(deps) == {deps[i][2] : i \in DOMAIN deps}

\* full_graph = {name: set(conf["deps"].values()) for name, conf in ...}
FullGraph(configs) == [n \in DOMAIN configs |-> DepValues(configs[n])]

\* ------------------------------------------------------------------------
\* graphlib.TopologicalSorter
\* ------------------------------------------------------------------------

\* Nodes of the sorter: every key and every predecessor named by a key.
SorterNodes(graph) == DOMAIN graph \cup UNION {graph[n] : n \in DOMAIN graph}

Predecessors(graph, n) == IF n \in DOMAIN graph THEN graph[n] ELSE {}

\* Every node handed out at once, whatever its predecessors.
ReadyBatchesFlat(graph, done) ==
    IF SorterNodes(graph) = {} THEN <<>> ELSE <<SorterNodes(graph)>>

\* get_ready()/done() rounds: each batch holds the nodes all of whose
\* predecessors were handed out in earlier batches.
RECURSIVE ReadyBatches(_, _)
ReadyBatches(graph, done) ==
    LET ready == {n \in SorterNodes(graph) \ done : Predecessors(graph, n) \subseteq done}
    IN  IF ready = {} THEN <<>>
        ELSE <<ready>> \o ReadyBatches(graph, done \cup ready)

\* A sorter that never reports a cycle.
CycleErrorNever(graph) == FALSE

\* prepare() raises CycleError exactly when some node never becomes ready.
CycleError(graph) ==
    LET batches == ReadyBatches(graph, {})
    IN  UNION {batches[i] : i \in DOMAIN batches} # SorterNodes(graph)

\* All orderings of a finite set, as sequences.
Orderings(S) ==
    {s \in [1..Cardinality(S) -> S] : \A i, j \in 1..Cardinality(S) : i # j => s[i] # s[j]}

RECURSIVE ConcatBatches(_)
ConcatBatches(batches) ==
    IF batches = <<>> THEN {<<>>}
    ELSE {p \o rest : p \in Orderings(Head(batches)), rest \in ConcatBatches(Tail(batches))}

\* The batches handed out dependents first.
StaticOrdersReversed(graph) ==
    LET forward == ConcatBatches(ReadyBatches(graph, {}))
    IN  {[i \in DOMAIN o |-> o[Len(o) + 1 - i]] : o \in forward}

\* list(ts.static_order()): the batches in turn; the order inside a batch
\* follows dict and set iteration order, which the caller does not control.
StaticOrders(graph) == ConcatBatches(ReadyBatches(graph, {}))

\* ------------------------------------------------------------------------
\* get_dependency_subgraph
\* ------------------------------------------------------------------------

\* The worklist loop again, keeping the nodes in the order it marks them:
\* one entry for each visited_nodes.add.
RECURSIVE VisitSequence(_, _, _)
VisitSequence(full_graph, nodes_to_visit, marked) ==
    IF nodes_to_visit = {} THEN marked
    ELSE LET current_node == CHOOSE n \in nodes_to_visit : TRUE
             rest == nodes_to_visit \ {current_node}
         IN  IF current_node \notin Range(marked)
             THEN VisitSequence(full_graph,
                                IF current_node \in DOMAIN full_graph
                                THEN rest \cup full_graph[current_node] ELSE rest,
                                Append(marked, current_node))
             ELSE VisitSequence(full_graph, rest, marked)

\* A traversal that marks every declared name, reached or not.
VisitNodesWholeGraph(full_graph, nodes_to_visit, visited_nodes) ==
    DOMAIN full_graph \cup nodes_to_visit \cup visited_nodes

\* The worklist loop: pop a node, mark it, add its dependencies.
RECURSIVE VisitNodes(_, _, _)
VisitNodes(full_graph, nodes_to_visit, visited_nodes) ==
    IF nodes_to_visit = {} THEN visited_nodes
    ELSE LET current_node == CHOOSE n \in nodes_to_visit : TRUE
             rest == nodes_to_visit \ {current_node}
         IN  IF current_node \notin visited_nodes
             THEN VisitNodes(full_graph,
                             IF current_node \in DOMAIN full_graph
                             THEN rest \cup full_graph[current_node] ELSE rest,
                             visited_nodes \cup {current_node})
             ELSE VisitNodes(full_graph, rest, visited_nodes)

\* The sorter given the whole graph instead of the visited part.
SubgraphUnrestricted(target_image_name, configs) == FullGraph(configs)

\* subgraph = {node: full_graph[node] for node in visited_nodes if node in full_graph}
Subgraph(target_image_name, configs) ==
    LET full_graph == FullGraph(configs)
        visited_nodes == VisitNodes(full_graph, {target_image_name}, {})
    IN  [n \in visited_nodes \cap DOMAIN full_graph |-> full_graph[n]]

\* A get_dependency_subgraph that ends the run for an undeclared target.
get_dependency_subgraph_strict(target_image_name, configs) ==
    IF target_image_name \notin DOMAIN configs THEN [cycle |-> TRUE, orders |-> {}]
    ELSE LET subgraph == Subgraph(target_image_name, configs)
         IN  IF CycleError(subgraph) THEN [cycle |-> TRUE, orders |-> {}]
             ELSE [cycle |-> FALSE, orders |-> StaticOrders(subgraph)]

\* The result of get_dependency_subgraph: "cycle" stands for its sys.exit(1),
\* otherwise the set of lists it can return.
get_dependency_subgraph(target_image_name, configs) ==
    IF target_image_name \notin DOMAIN configs THEN [cycle |-> FALSE, orders |-> {<<>>}]
    ELSE LET subgraph == Subgraph(target_image_name, configs)
         IN  IF CycleError(subgraph) THEN [cycle |-> TRUE, orders |-> {}]
             ELSE [cycle |-> FALSE, orders |-> StaticOrders(subgraph)]

\* ------------------------------------------------------------------------
\* Content addresser and tag resolver
\* ------------------------------------------------------------------------

\* The bytes of the recipe file at a path <<directory, file name>>.  The
\* recipes under the first search path all carry one and the same text;
\* those under the other search paths differ from image to image.
ReadFile(path) ==
    IF path[1] = SearchPaths[1] THEN "FROM scratch"
    ELSE "recipe(" \o path[1] \o "/" \o path[2] \o ")"

\* hashlib.sha256 over a byte string, kept symbolic: the digest of s is
\* written "sha256[s]", so equal digests mean equal hashed bytes.
HexDigest(bytes) == "sha256[" \o bytes \o "]"

RECURSIVE JoinAll(_)
JoinAll(strs) == IF strs = <<>> THEN "" ELSE Head(strs) \o JoinAll(Tail(strs))

\* calculate_sha256: update(file bytes), then update(pair) for each pair.
calculate_sha256(path, sorted_build_args) ==
    HexDigest(ReadFile(path) \o JoinAll(sorted_build_args))

\* Position of an arg name in ArgNames, which lists them in the byte order
\* of their "NAME=" strings.
ArgRank(arg) == CHOOSE i \in DOMAIN ArgNames : ArgNames[i] = arg

\* The entries left in the order the dependency map lists them.
SortedDepsAsListed(deps) == deps

\* build_args_for_sha_calc.sort(): the entries of a dependency map ordered
\* by their "NAME=VALUE" strings (arg names are distinct, so by name).
RECURSIVE SortedDeps(_)
SortedDeps(deps) ==
    IF deps = <<>> THEN <<>>
    ELSE LET i == CHOOSE i \in DOMAIN deps :
                    \A j \in DOMAIN deps : ArgRank(deps[i][1]) <= ArgRank(deps[j][1])
             rest == [k \in 1..(Len(deps) - 1) |-> IF k < i THEN deps[k] ELSE deps[k + 1]]
         IN  <<deps[i]>> \o SortedDeps(rest)

\* ------------------------------------------------------------------------
\* State of one run of main()
\* ------------------------------------------------------------------------

VARIABLES
    pc,                    \* position of the run
    REPO,                  \* the module global set by load_config
    target_image,          \* args.target_image
    print_tag_mode,        \* args.print_tag
    image_configs_map,     \* result of load_image_configs
    images_to_process,     \* the computed order
    idx,                   \* position of the for loop in images_to_process
    generated_tags,        \* image name -> tag
    processed,             \* images process_image was called for, in order
    image_name,            \* image of the current process_image call
    dockerfile_path,       \* its recipe path
    build_args_for_manage, \* its <<name, value>> build args, in map order
    current_tag,           \* its tag
    cmds,                  \* commands its manage_docker_image call has run
    terminal,              \* how its manage_docker_image call returned
    raised,                \* the exception manage_docker_image caught
    push_failed,           \* some push of this run has failed
    exit_code,             \* exit status of the run, None while running
    diag,                  \* which exit of the program ended the run
    paths,                 \* _minimize_paths: the set of paths it is given
    sorted_paths,          \* _minimize_paths: the sorted paths still to visit
    minimal_paths,         \* _minimize_paths: the minimal parent paths so far
    links,                 \* the file system: symlink place -> its target
    worklist,              \* list_external_mounts: directories still to walk
    scanned,               \* list_external_mounts: directories it has walked from
    external_paths,        \* list_external_mounts: external paths found
    pending,               \* symlinks the current os.walk has still to hand over
    current_path,          \* _process_symlink: the path whose chain is followed
    visited_in_chain,      \* _process_symlink: the links of the chain so far
    walked                 \* every directory os.walk has listed, in order

vars == <<pc, REPO, target_image, print_tag_mode, image_configs_map,
          images_to_process, idx, generated_tags, processed, image_name,
          dockerfile_path, build_args_for_manage, current_tag, cmds, terminal,
          raised, push_failed, exit_code, diag,
          paths, sorted_paths, minimal_paths,
          links, worklist, scanned, external_paths, pending, current_path,
          visited_in_chain, walked>>

args_vars == <<target_image, print_tag_mode>>
image_vars == <<image_name, dockerfile_path, build_args_for_manage, current_tag>>
loop_vars == <<images_to_process, idx, generated_tags, processed>>
run_vars == <<cmds, terminal, raised, push_failed>>

\* The state of main() apart from the position, and the state of
\* list_external_mounts.py; a step of one program leaves the other's alone.
build_vars == <<REPO, target_image, print_tag_mode, image_configs_map,
                images_to_process, idx, generated_tags, processed, image_name,
                dockerfile_path, build_args_for_manage, current_tag, cmds, terminal,
                raised, push_failed, exit_code, diag>>
minimize_vars == <<paths, sorted_paths, minimal_paths>>
scan_vars == <<links, worklist, scanned, external_paths, pending, current_path,
               visited_in_chain, walked>>
mounts_vars == <<minimize_vars, scan_vars>>

EmptyMap == [n \in {} |-> ""]

\* No recipe path.
NoPath == <<>>

\* No exception.
NoError == [type |-> "None", returncode |-> 0]

\* subprocess.CalledProcessError with its returncode
CalledProcessError(returncode) == [type |-> "CalledProcessError", returncode |-> returncode]

\* FileNotFoundError: the docker binary is missing
FileNotFoundError == [type |-> "FileNotFoundError", returncode |-> 0]

Init ==
    /\ pc = "parse_args"
    /\ REPO = ""
    /\ target_image = None
    /\ print_tag_mode = FALSE
    /\ image_configs_map = EmptyMap
    /\ images_to_process = <<>>
    /\ idx = 1
    /\ generated_tags = EmptyMap
    /\ processed = <<>>
    /\ image_name = None
    /\ dockerfile_path = NoPath
    /\ build_args_for_manage = <<>>
    /\ current_tag = None
    /\ cmds = <<>>
    /\ terminal = None
    /\ raised = NoError
    /\ push_failed = FALSE
    /\ exit_code = None
    /\ diag = None
    /\ paths = {}
    /\ sorted_paths = <<>>
    /\ minimal_paths = {}
    /\ links = <<>>
    /\ worklist = <<>>
    /\ scanned = {}
    /\ external_paths = {}
    /\ pending = <<>>
    /\ current_path = <<>>
    /\ visited_in_chain = {}
    /\ walked = <<>>

\* An exit that records the status and lets the loop go on.
ExitAndGoOn(code, why) ==
    /\ pc' = "loop"
    /\ exit_code' = code
    /\ diag' = why
    /\ UNCHANGED mounts_vars

\* sys.exit(code), or the interpreter ending the run.
Exit(code, why) ==
    /\ pc' = "exited"
    /\ exit_code' = code
    /\ diag' = why
    /\ UNCHANGED mounts_vars

Continue(next) ==
    /\ pc' = next
    /\ UNCHANGED <<exit_code, diag>>
    /\ UNCHANGED mounts_vars

\* A main that hands no print-tag target to process_image.
target_image_for_tag_print_unset == None

\* target_image_for_tag_print of main
target_image_for_tag_print == IF print_tag_mode THEN target_image ELSE None

\* A tag that always starts with the registry segment and its separator.
get_image_tag_prefixed(name, sha) ==
    REPO \o "/" \o "devkit/" \o name \o ":" \o ARCH \o "-" \o sha

\* A tag that also tells how the previous manage_docker_image call returned.
get_image_tag_of_outcome(name, sha) ==
    LET image_path == "devkit/" \o name
        tag_suffix == ARCH \o "-" \o sha \o "-" \o terminal
    IN  IF REPO # "" THEN REPO \o "/" \o image_path \o ":" \o tag_suffix
        ELSE image_path \o ":" \o tag_suffix

\* get_image_tag, reading the global REPO
get_image_tag(name, sha) ==
    LET image_path == "devkit/" \o name
        tag_suffix == ARCH \o "-" \o sha
    IN  IF REPO # "" THEN REPO \o "/" \o image_path \o ":" \o tag_suffix
        ELSE image_path \o ":" \o tag_suffix

\* ------------------------------------------------------------------------
\* main(), up to the processing loop
\* ------------------------------------------------------------------------

\* parser.parse_args()
ParseArgs ==
    /\ pc = "parse_args"
    /\ \E t \in {None} \cup AllNames, p \in BOOLEAN :
        /\ target_image' = t
        /\ print_tag_mode' = p
    /\ Continue("load_config")
    /\ UNCHANGED <<REPO, image_configs_map, loop_vars, image_vars, run_vars>>

\* A load_config that reports a document it cannot decode and goes on.
load_config_warns ==
    /\ pc = "load_config"
    /\ \/ /\ \E doc \in {"absent", "no_registry"} : REPO' = REPO
          /\ Continue("load_image_configs")
       \/ /\ \E registry \in Registries : REPO' = registry
          /\ Continue("load_image_configs")
       \/ /\ REPO' = REPO
          /\ pc' = "load_image_configs"
          /\ diag' = "config_decode_error"
          /\ UNCHANGED exit_code
          /\ UNCHANGED mounts_vars
    /\ UNCHANGED <<args_vars, image_configs_map, loop_vars, image_vars, run_vars>>

\* load_config: the settings document is absent, cannot be decoded, carries
\* no registry, or carries one.
load_config ==
    /\ pc = "load_config"
    /\ \/ /\ \E doc \in {"absent", "no_registry"} : REPO' = REPO
          /\ Continue("load_image_configs")
       \/ /\ \E registry \in Registries : REPO' = registry
          /\ Continue("load_image_configs")
       \/ /\ REPO' = REPO
          /\ Exit(1, "config_decode_error")
    /\ UNCHANGED <<args_vars, image_configs_map, loop_vars, image_vars, run_vars>>

\* A deps.json document of one search path: a dict of declarations, a file
\* that is not there, a file holding something that is no dict, or a file
\* that cannot be decoded.
DictDoc(configs) == [kind |-> "dict", configs |-> configs]
OtherDoc(kind) == [kind |-> kind, configs |-> EmptyMap]

\* The declaration an earlier search path can give to an image that a later
\* one declares again.
OverwrittenDecls == {<<>>, <<<<ArgNames[2], Undeclared>>>>}

\* The documents of the search paths, in their order, whose merge is the
\* declarations `final`: the last path declares the names in later, the
\* first one the others and, with another dependency map, some of those the
\* last one declares too.
DocsFor(final) ==
    {<<DictDoc([n \in (DOMAIN final \ later) \cup again |->
                    IF n \in later THEN old ELSE final[n]]),
       DictDoc([n \in later |-> final[n]])>> :
        later \in SUBSET DOMAIN final, again \in SUBSET DOMAIN final,
        old \in OverwrittenDecls}
    \cup {<<DictDoc(final), OtherDoc(k)>> : k \in {"absent", "not_a_dict"}}
    \cup {<<OtherDoc(k), DictDoc(final)>> : k \in {"absent", "not_a_dict"}}

\* Documents one of which cannot be decoded.
UndecodableDocs ==
    {<<OtherDoc("undecodable"), OtherDoc("absent")>>,
     <<OtherDoc("absent"), OtherDoc("undecodable")>>,
     <<DictDoc(EmptyMap), OtherDoc("undecodable")>>}

\* An update that keeps the declaration it already has for a name.
DictUpdateKeepsFirst(all_configs, configs) ==
    [n \in DOMAIN all_configs \cup DOMAIN configs |->
        IF n \in DOMAIN all_configs THEN all_configs[n] ELSE configs[n]]

\* all_configs.update(configs)
DictUpdate(all_configs, configs) ==
    [n \in DOMAIN all_configs \cup DOMAIN configs |->
        IF n \in DOMAIN configs THEN configs[n] ELSE all_configs[n]]

\* The loop of load_image_configs over the search paths: every document
\* that is a dict updates all_configs, the others are passed over.
RECURSIVE MergeDocuments(_)
MergeDocuments(docs) ==
    IF docs = <<>> THEN EmptyMap
    ELSE LET all_configs == MergeDocuments(SubSeq(docs, 1, Len(docs) - 1))
             doc == docs[Len(docs)]
         IN  IF doc.kind = "dict" THEN DictUpdate(all_configs, doc.configs)
             ELSE all_configs

\* load_image_configs: the merge of the documents of the search paths, or
\* the exit at a document that cannot be decoded.
load_image_configs ==
    /\ pc = "load_image_configs"
    /\ \/ \E docs \in UndecodableDocs :
            /\ \E i \in DOMAIN docs : docs[i].kind = "undecodable"
            /\ UNCHANGED image_configs_map
            /\ Exit(1, "deps_decode_error")
       \/ \E final \in ImageConfigsMaps : \E docs \in DocsFor(final) :
            /\ \A i \in DOMAIN docs : docs[i].kind # "undecodable"
            /\ image_configs_map' = MergeDocuments(docs)
            /\ Continue("validate")
    /\ UNCHANGED <<REPO, args_vars, loop_vars, image_vars, run_vars>>

\* Argument checks that look at the target only in print-tag mode.
ValidatePrintTagOnly ==
    /\ pc = "validate"
    /\ LET all_image_names == DOMAIN image_configs_map
       IN  IF print_tag_mode
           THEN IF target_image = None THEN Exit(1, "print_tag_requires_target")
                ELSE IF target_image \notin all_image_names
                     THEN Exit(1, "invalid_print_tag_target")
                     ELSE Continue("order")
           ELSE Continue("order")
    /\ UNCHANGED <<REPO, args_vars, image_configs_map, loop_vars, image_vars, run_vars>>

\* The argument checks of main.
Validate ==
    /\ pc = "validate"
    /\ LET all_image_names == DOMAIN image_configs_map
       IN  IF print_tag_mode
           THEN IF target_image = None THEN Exit(1, "print_tag_requires_target")
                ELSE IF target_image \notin all_image_names
                     THEN Exit(1, "invalid_print_tag_target")
                     ELSE Continue("order")
           ELSE IF target_image # None /\ target_image \notin all_image_names
                THEN Exit(1, "invalid_target")
                ELSE Continue("order")
    /\ UNCHANGED <<REPO, args_vars, image_configs_map, loop_vars, image_vars, run_vars>>

\* An ordering step that looks for a cycle in the whole graph first, target
\* or not.
ComputeOrderChecksWholeGraph ==
    /\ pc = "order"
    /\ LET full_graph == FullGraph(image_configs_map)
       IN  IF CycleError(full_graph)
           THEN /\ Exit(1, "cycle")
                /\ UNCHANGED images_to_process
           ELSE /\ \E order \in IF target_image # None
                                THEN get_dependency_subgraph(target_image,
                                                             image_configs_map).orders
                                ELSE StaticOrders(full_graph) :
                      images_to_process' = order
                /\ Continue("loop")
    /\ UNCHANGED <<REPO, args_vars, image_configs_map, idx, generated_tags, processed,
                   image_vars, run_vars>>

\* images_to_process: the target's closure, or the whole graph, in the
\* sorter's order; a cycle ends the run.
ComputeOrder ==
    /\ pc = "order"
    /\ IF target_image # None
       THEN LET r == get_dependency_subgraph(target_image, image_configs_map)
            IN  IF r.cycle
                THEN /\ Exit(1, "cycle")
                     /\ UNCHANGED images_to_process
                ELSE /\ \E order \in r.orders : images_to_process' = order
                     /\ Continue("loop")
       ELSE LET full_graph == FullGraph(image_configs_map)
            IN  IF CycleError(full_graph)
                THEN /\ Exit(1, "cycle")
                     /\ UNCHANGED images_to_process
                ELSE /\ \E order \in StaticOrders(full_graph) : images_to_process' = order
                     /\ Continue("loop")
    /\ UNCHANGED <<REPO, args_vars, image_configs_map, idx, generated_tags, processed,
                   image_vars, run_vars>>

\* ------------------------------------------------------------------------
\* process_image, up to its call of manage_docker_image
\* ------------------------------------------------------------------------

\* A path is <<directory, file name>>.
JoinPath(path) == path[1] \o "/" \o path[2]

\* os.path.dirname
Dirname(path) == path[1]

\* A search loop that keeps the last search path holding the recipe.
FindDockerfileLast(name, holding) ==
    IF holding = {} THEN NoPath
    ELSE LET last == CHOOSE i \in holding : \A j \in holding : i >= j
         IN  <<SearchPaths[last], name \o ".Dockerfile">>

\* The search loop: the first search path, in the given order, that holds
\* the recipe; `holding` is the set of positions whose directory holds it.
FindDockerfile(name, holding) ==
    IF holding = {} THEN NoPath
    ELSE LET first == CHOOSE i \in holding : \A j \in holding : i <= j
         IN  <<SearchPaths[first], name \o ".Dockerfile">>

\* The guard of the binding loop: no dependency lacks a tag.
DepsResolved(dependencies, tags) ==
    \A i \in DOMAIN dependencies : dependencies[i][2] \in DOMAIN tags

\* Pairs that carry the arg names and leave the dependency tags out.
BuildArgsForShaCalcNamesOnly(dependencies, tags) ==
    LET sorted == SortedDeps(dependencies)
    IN  [i \in DOMAIN sorted |-> sorted[i][1] \o "="]

\* Pairs that bind each arg to the dependency's name instead of its tag.
BuildArgsForManageDepNames(dependencies, tags) ==
    [i \in DOMAIN dependencies |-> <<dependencies[i][1], dependencies[i][2]>>]

\* build_args_for_manage, as <<ARG_NAME, dep_tag>> pairs in map order.
BuildArgsForManage(dependencies, tags) ==
    [i \in DOMAIN dependencies |-> <<dependencies[i][1], tags[dependencies[i][2]]>>]

\* Pairs for the image's dependencies and, after them, for every tag
\* recorded so far.
BuildArgsForShaCalcAllTags(dependencies, tags) ==
    LET sorted == SortedDeps(dependencies)
        Tagged(n) == n \in DOMAIN tags
        tagged == SelectSeq(ImageNames, Tagged)
    IN  [i \in DOMAIN sorted |-> sorted[i][1] \o "=" \o tags[sorted[i][2]]]
        \o [i \in DOMAIN tagged |-> tagged[i] \o "=" \o tags[tagged[i]]]

\* build_args_for_sha_calc after its sort(): "ARG_NAME=dep_tag" strings.
BuildArgsForShaCalc(dependencies, tags) ==
    LET sorted == SortedDeps(dependencies)
    IN  [i \in DOMAIN sorted |-> sorted[i][1] \o "=" \o tags[sorted[i][2]]]

\* A fresh map for each image instead of the shared one.
RecordAlone(tags, name, tag) == (name :> tag)

\* A write that sets every entry of the map to the new tag.
RecordOverAll(tags, name, tag) == [n \in DOMAIN tags \cup {name} |-> tag]

\* A step that leaves the identifier map as it was.
RecordNothing(tags, name, tag) == tags

\* generated_tags[image_name] = current_tag
Record(tags, name, tag) == (name :> tag) @@ tags

\* A process_image that binds the dependencies that have a tag and passes
\* over the others.
process_image_lenient ==
    /\ pc = "loop"
    /\ idx <= Len(images_to_process)
    /\ LET name == images_to_process[idx]
       IN  IF name \notin DOMAIN image_configs_map
           THEN /\ Exit(1, "KeyError")
                /\ UNCHANGED <<generated_tags, processed, image_vars, cmds, terminal>>
           ELSE LET Resolved(e) == e[2] \in DOMAIN generated_tags
                    dependencies == SelectSeq(image_configs_map[name], Resolved)
                IN  /\ processed' = Append(processed, name)
                    /\ image_name' = name
                    /\ cmds' = <<>>
                    /\ terminal' = None
                    /\ \E holding \in SUBSET DOMAIN SearchPaths :
                        LET path == FindDockerfile(name, holding)
                        IN  IF path = NoPath
                            THEN /\ Exit(1, "dockerfile_not_found")
                                 /\ dockerfile_path' = NoPath
                                 /\ UNCHANGED <<generated_tags, build_args_for_manage,
                                                current_tag>>
                            ELSE /\ dockerfile_path' = path
                                 /\ IF ~DepsResolved(dependencies, generated_tags)
                                    THEN /\ Exit(1, "dependency_tag_not_found")
                                         /\ UNCHANGED <<generated_tags, build_args_for_manage,
                                                        current_tag>>
                                    ELSE \/ /\ Exit(1, "dockerfile_disappeared")
                                            /\ build_args_for_manage' =
                                                 BuildArgsForManage(dependencies, generated_tags)
                                            /\ UNCHANGED <<generated_tags, current_tag>>
                                         \/ LET sha == calculate_sha256(path,
                                                         BuildArgsForShaCalc(dependencies,
                                                                             generated_tags))
                                                tag == get_image_tag(name, sha)
                                            IN  /\ build_args_for_manage' =
                                                     BuildArgsForManage(dependencies,
                                                                        generated_tags)
                                                /\ current_tag' = tag
                                                /\ generated_tags' =
                                                     Record(generated_tags, name, tag)
                                                /\ Continue("inspect")
    /\ UNCHANGED <<REPO, args_vars, image_configs_map, images_to_process, idx, raised,
                   push_failed>>

\* One round of main's for loop up to the first container-runtime command:
\* the lookup of the declaration, then process_image down to its call of
\* manage_docker_image.
process_image ==
    /\ pc = "loop"
    /\ idx <= Len(images_to_process)
    /\ LET name == images_to_process[idx]
       IN  IF name \notin DOMAIN image_configs_map
           THEN /\ Exit(1, "KeyError")
                /\ UNCHANGED <<generated_tags, processed, image_vars, cmds, terminal>>
           ELSE LET dependencies == image_configs_map[name]
                IN  /\ processed' = Append(processed, name)
                    /\ image_name' = name
                    /\ cmds' = <<>>
                    /\ terminal' = None
                    /\ \E holding \in SUBSET DOMAIN SearchPaths :
                        LET path == FindDockerfile(name, holding)
                        IN  IF path = NoPath
                            THEN /\ Exit(1, "dockerfile_not_found")
                                 /\ dockerfile_path' = NoPath
                                 /\ UNCHANGED <<generated_tags, build_args_for_manage,
                                                current_tag>>
                            ELSE /\ dockerfile_path' = path
                                 /\ IF ~DepsResolved(dependencies, generated_tags)
                                    THEN /\ Exit(1, "dependency_tag_not_found")
                                         /\ UNCHANGED <<generated_tags, build_args_for_manage,
                                                        current_tag>>
                                    ELSE \/ /\ Exit(1, "dockerfile_disappeared")
                                            /\ build_args_for_manage' =
                                                 BuildArgsForManage(dependencies, generated_tags)
                                            /\ UNCHANGED <<generated_tags, current_tag>>
                                         \/ LET sha == calculate_sha256(path,
                                                         BuildArgsForShaCalc(dependencies,
                                                                             generated_tags))
                                                tag == get_image_tag(name, sha)
                                            IN  /\ build_args_for_manage' =
                                                     BuildArgsForManage(dependencies,
                                                                        generated_tags)
                                                /\ current_tag' = tag
                                                /\ generated_tags' =
                                                     Record(generated_tags, name, tag)
                                                /\ Continue("inspect")
    /\ UNCHANGED <<REPO, args_vars, image_configs_map, images_to_process, idx, raised,
                   push_failed>>

\* ------------------------------------------------------------------------
\* manage_docker_image, one step per container-runtime command
\* ------------------------------------------------------------------------

inspect_cmd(tag) == <<"docker", "image", "inspect", tag>>
manifest_inspect_cmd(tag) == <<"docker", "manifest", "inspect", tag>>
pull_cmd(tag) == <<"docker", "pull", tag>>
push_cmd(tag) == <<"docker", "push", tag>>

\* A command that carries a flag for the first build arg only.
BuildArgFlagsFirstOnly(build_args_list) ==
    IF build_args_list = <<>> THEN <<>>
    ELSE <<"--build-arg", Head(build_args_list)[1] \o "=" \o Head(build_args_list)[2]>>

RECURSIVE BuildArgFlags(_)
BuildArgFlags(build_args_list) ==
    IF build_args_list = <<>> THEN <<>>
    ELSE <<"--build-arg", Head(build_args_list)[1] \o "=" \o Head(build_args_list)[2]>>
         \o BuildArgFlags(Tail(build_args_list))

docker_build_cmd(tag, path, build_args_list, context_path) ==
    <<"docker", "buildx", "build", "--tag", tag, "--file", JoinPath(path)>>
    \o BuildArgFlags(build_args_list) \o <<context_path>>

\* subprocess.run(argv): the command and how it came back ("ok",
\* "failed" for a non-zero status, "not_found" when docker is missing).
Run(argv, result) == cmds' = Append(cmds, [argv |-> argv, result |-> result])

\* The status passed on as it is, zero included.
ErrorExitCodeRaw(returncode) == returncode

\* sys.exit(e.returncode if e.returncode != 0 else 1)
ErrorExitCode(returncode) == IF returncode # 0 THEN returncode ELSE 1

\* A return after which main's loop always moves on, print-tag mode or not.
ReturnedNoPrint(how) ==
    /\ terminal' = how
    /\ idx' = idx + 1
    /\ Continue("loop")

\* A return after which the loop passes over the next image of the order.
ReturnedSkipsNext(how) ==
    /\ terminal' = how
    /\ IF print_tag_mode /\ image_name = target_image_for_tag_print
       THEN /\ Exit(0, "print_tag")
            /\ UNCHANGED idx
       ELSE /\ idx' = idx + 2
            /\ Continue("loop")

\* A return after which the loop takes the same image again.
ReturnedRepeats(how) ==
    /\ terminal' = how
    /\ IF print_tag_mode /\ image_name = target_image_for_tag_print
       THEN /\ Exit(0, "print_tag")
            /\ UNCHANGED idx
       ELSE /\ idx' = idx
            /\ Continue("loop")

\* manage_docker_image returns; process_image prints the tag and exits in
\* print-tag mode when this is the target, else main's loop moves on.
Returned(how) ==
    /\ terminal' = how
    /\ IF print_tag_mode /\ image_name = target_image_for_tag_print
       THEN /\ Exit(0, "print_tag")
            /\ UNCHANGED idx
       ELSE /\ idx' = idx + 1
            /\ Continue("loop")

\* except FileNotFoundError: sys.exit(1)
DockerNotFound(argv) ==
    /\ Run(argv, "not_found")
    /\ raised' = FileNotFoundError
    /\ Exit(1, "docker_not_found")
    /\ UNCHANGED <<idx, terminal>>

\* A handler that ends the run with status 1 whatever the command reported.
CommandFailedExitsOne(argv) ==
    /\ Run(argv, "failed")
    /\ \E returncode \in 0..MaxReturnCode :
        /\ raised' = CalledProcessError(returncode)
        /\ Exit(1, "docker_error")
    /\ UNCHANGED <<idx, terminal>>

\* check=True and a non-zero status: except subprocess.CalledProcessError
CommandFailed(argv) ==
    /\ Run(argv, "failed")
    /\ \E returncode \in 0..MaxReturnCode :
        /\ raised' = CalledProcessError(returncode)
        /\ Exit(ErrorExitCode(returncode), "docker_error")
    /\ UNCHANGED <<idx, terminal>>

manage_vars == <<REPO, args_vars, image_configs_map, images_to_process, generated_tags,
                 processed, image_vars>>

\* An inspect whose success does not return.
InspectFallsThrough ==
    /\ pc = "inspect"
    /\ LET argv == inspect_cmd(current_tag)
       IN  \/ /\ Run(argv, "ok")
              /\ Continue("manifest")
              /\ UNCHANGED <<idx, terminal, raised>>
           \/ /\ Run(argv, "failed")
              /\ Continue("manifest")
              /\ UNCHANGED <<idx, terminal, raised>>
           \/ DockerNotFound(argv)
    /\ UNCHANGED <<manage_vars, push_failed>>

\* A manifest check with its two outcomes exchanged.
ManifestInspectInverted ==
    /\ pc = "manifest"
    /\ LET argv == manifest_inspect_cmd(current_tag)
       IN  \/ /\ Run(argv, "ok")
              /\ Continue("build")
              /\ UNCHANGED <<idx, terminal, raised>>
           \/ /\ Run(argv, "failed")
              /\ Continue("pull")
              /\ UNCHANGED <<idx, terminal, raised>>
           \/ DockerNotFound(argv)
    /\ UNCHANGED <<manage_vars, push_failed>>

\* A build that returns without pushing.
BuildWithoutPush ==
    /\ pc = "build"
    /\ LET argv == docker_build_cmd(current_tag, dockerfile_path, build_args_for_manage,
                                    Dirname(dockerfile_path))
       IN  \/ /\ Run(argv, "ok")
              /\ Returned("BuiltLocalOnly")
              /\ UNCHANGED raised
           \/ CommandFailed(argv)
           \/ DockerNotFound(argv)
    /\ UNCHANGED <<manage_vars, push_failed>>

\* A push run with check=True: its failure ends the run.
PushChecked ==
    /\ pc = "push"
    /\ LET argv == push_cmd(current_tag)
       IN  \/ /\ Run(argv, "ok")
              /\ Returned("Published")
              /\ UNCHANGED <<raised, push_failed>>
           \/ /\ CommandFailed(argv)
              /\ push_failed' = TRUE
           \/ /\ DockerNotFound(argv)
              /\ UNCHANGED push_failed
    /\ UNCHANGED manage_vars

\* A pull whose success goes on to the build instead of returning.
PullThenBuild ==
    /\ pc = "pull"
    /\ LET argv == pull_cmd(current_tag)
       IN  \/ /\ Run(argv, "ok")
              /\ Continue("build")
              /\ UNCHANGED <<idx, terminal, raised>>
           \/ CommandFailed(argv)
           \/ DockerNotFound(argv)
    /\ UNCHANGED <<manage_vars, push_failed>>

\* An inspect run with check=True: a non-zero status ends the run.
InspectChecked ==
    /\ pc = "inspect"
    /\ LET argv == inspect_cmd(current_tag)
       IN  \/ /\ Run(argv, "ok")
              /\ Returned("Skipped")
              /\ UNCHANGED raised
           \/ CommandFailed(argv)
           \/ DockerNotFound(argv)
    /\ UNCHANGED <<manage_vars, push_failed>>

\* 1. docker image inspect, check=False
Inspect ==
    /\ pc = "inspect"
    /\ LET argv == inspect_cmd(current_tag)
       IN  \/ /\ Run(argv, "ok")
              /\ Returned("Skipped")
              /\ UNCHANGED raised
           \/ /\ Run(argv, "failed")
              /\ Continue("manifest")
              /\ UNCHANGED <<idx, terminal, raised>>
           \/ DockerNotFound(argv)
    /\ UNCHANGED <<manage_vars, push_failed>>

\* 2. docker manifest inspect, check=False
ManifestInspect ==
    /\ pc = "manifest"
    /\ LET argv == manifest_inspect_cmd(current_tag)
       IN  \/ /\ Run(argv, "ok")
              /\ Continue("pull")
              /\ UNCHANGED <<idx, terminal, raised>>
           \/ /\ Run(argv, "failed")
              /\ Continue("build")
              /\ UNCHANGED <<idx, terminal, raised>>
           \/ DockerNotFound(argv)
    /\ UNCHANGED <<manage_vars, push_failed>>

\* docker pull, check=True
Pull ==
    /\ pc = "pull"
    /\ LET argv == pull_cmd(current_tag)
       IN  \/ /\ Run(argv, "ok")
              /\ Returned("Pulled")
              /\ UNCHANGED raised
           \/ CommandFailed(argv)
           \/ DockerNotFound(argv)
    /\ UNCHANGED <<manage_vars, push_failed>>

\* 4. docker buildx build, check=True
Build ==
    /\ pc = "build"
    /\ LET argv == docker_build_cmd(current_tag, dockerfile_path, build_args_for_manage,
                                    Dirname(dockerfile_path))
       IN  \/ /\ Run(argv, "ok")
              /\ Continue("push")
              /\ UNCHANGED <<idx, terminal, raised>>
           \/ CommandFailed(argv)
           \/ DockerNotFound(argv)
    /\ UNCHANGED <<manage_vars, push_failed>>

\* docker push, check=False: a failure is only a warning
Push ==
    /\ pc = "push"
    /\ LET argv == push_cmd(current_tag)
       IN  \/ /\ Run(argv, "ok")
              /\ Returned("Published")
              /\ UNCHANGED <<raised, push_failed>>
           \/ /\ Run(argv, "failed")
              /\ push_failed' = TRUE
              /\ Returned("BuiltLocalOnly")
              /\ UNCHANGED raised
           \/ /\ DockerNotFound(argv)
              /\ UNCHANGED push_failed
    /\ UNCHANGED manage_vars

\* An end of main that reports success in every mode.
FinishReportsSuccess ==
    /\ pc = "loop"
    /\ idx > Len(images_to_process)
    /\ Exit(0, "success")
    /\ UNCHANGED <<REPO, args_vars, image_configs_map, loop_vars, image_vars, run_vars>>

\* The end of main, after the loop.
Finish ==
    /\ pc = "loop"
    /\ idx > Len(images_to_process)
    /\ IF print_tag_mode
       THEN Exit(1, "print_tag_not_processed")
       ELSE Exit(0, "success")
    /\ UNCHANGED <<REPO, args_vars, image_configs_map, loop_vars, image_vars, run_vars>>

Next ==
    \/ ParseArgs
    \/ load_config
    \/ load_image_configs
    \/ Validate
    \/ ComputeOrder
    \/ process_image
    \/ Inspect
    \/ ManifestInspect
    \/ Pull
    \/ Build
    \/ Push
    \/ Finish

Spec == Init /\ [][Next]_vars

\* ------------------------------------------------------------------------
\* The functions driven directly, as the unit tests drive them
\* ------------------------------------------------------------------------

\* What a patched get_dependency_subgraph can hand to main: any list of
\* declared images without repeats, the empty list included.
MockedOrders == UNION {Orderings(S) : S \in SUBSET DOMAIN image_configs_map}

\* A test starts main with a target and the declarations patched in, or
\* calls get_dependency_subgraph on its own; REPO keeps its default.
InitHarness ==
    /\ pc \in {"validate", "unit_subgraph"}
    /\ REPO = ""
    /\ target_image \in AllNames
    /\ print_tag_mode \in BOOLEAN
    /\ pc = "unit_subgraph" => ~print_tag_mode
    /\ image_configs_map \in ImageConfigsMaps
    /\ images_to_process = <<>>
    /\ idx = 1
    /\ generated_tags = EmptyMap
    /\ processed = <<>>
    /\ image_name = None
    /\ dockerfile_path = NoPath
    /\ build_args_for_manage = <<>>
    /\ current_tag = None
    /\ cmds = <<>>
    /\ terminal = None
    /\ raised = NoError
    /\ push_failed = FALSE
    /\ exit_code = None
    /\ diag = None
    /\ paths = {}
    /\ sorted_paths = <<>>
    /\ minimal_paths = {}
    /\ links = <<>>
    /\ worklist = <<>>
    /\ scanned = {}
    /\ external_paths = {}
    /\ pending = <<>>
    /\ current_path = <<>>
    /\ visited_in_chain = {}
    /\ walked = <<>>

\* main's ordering step with get_dependency_subgraph patched: with a target
\* the order is whatever the patch returns, without one it is the sorter's.
ComputeOrderMocked ==
    /\ pc = "order"
    /\ IF target_image # None
       THEN /\ \E order \in MockedOrders : images_to_process' = order
            /\ Continue("loop")
       ELSE LET full_graph == FullGraph(image_configs_map)
            IN  IF CycleError(full_graph)
                THEN /\ Exit(1, "cycle")
                     /\ UNCHANGED images_to_process
                ELSE /\ \E order \in StaticOrders(full_graph) : images_to_process' = order
                     /\ Continue("loop")
    /\ UNCHANGED <<REPO, args_vars, image_configs_map, idx, generated_tags, processed,
                   image_vars, run_vars>>

\* get_dependency_subgraph called on its own with any target name.
CallGetDependencySubgraph ==
    /\ pc = "unit_subgraph"
    /\ LET r == get_dependency_subgraph(target_image, image_configs_map)
       IN  IF r.cycle
           THEN /\ Exit(1, "cycle")
                /\ UNCHANGED images_to_process
           ELSE /\ \E order \in r.orders : images_to_process' = order
                /\ Continue("unit_returned")
    /\ UNCHANGED <<REPO, args_vars, image_configs_map, idx, generated_tags, processed,
                   image_vars, run_vars>>

NextHarness ==
    \/ Validate
    \/ ComputeOrderMocked
    \/ CallGetDependencySubgraph
    \/ process_image
    \/ Inspect
    \/ ManifestInspect
    \/ Pull
    \/ Build
    \/ Push
    \/ Finish

SpecHarness == InitHarness /\ [][NextHarness]_vars

\* ------------------------------------------------------------------------
\* Local-only mode of manage_docker_image
\* ------------------------------------------------------------------------

\* The local check in local-only mode: an image present locally is skipped,
\* an absent one goes straight to the build, the registry not being asked.
InspectLocalOnly ==
    /\ pc = "inspect"
    /\ LET argv == inspect_cmd(current_tag)
       IN  \/ /\ Run(argv, "ok")
              /\ Returned("Skipped")
              /\ UNCHANGED raised
           \/ /\ Run(argv, "failed")
              /\ Continue("build")
              /\ UNCHANGED <<idx, terminal, raised>>
           \/ DockerNotFound(argv)
    /\ UNCHANGED <<manage_vars, push_failed>>

\* A local-only build that goes on to the push.
BuildLocalOnlyThenPush ==
    /\ pc = "build"
    /\ LET argv == docker_build_cmd(current_tag, dockerfile_path, build_args_for_manage,
                                    Dirname(dockerfile_path))
       IN  \/ /\ Run(argv, "ok")
              /\ Continue("push")
              /\ UNCHANGED <<idx, terminal, raised>>
           \/ CommandFailed(argv)
           \/ DockerNotFound(argv)
    /\ UNCHANGED <<manage_vars, push_failed>>

\* The build in local-only mode: the publish step is left out and the call
\* returns as BuiltLocalOnly.
BuildLocalOnly ==
    /\ pc = "build"
    /\ LET argv == docker_build_cmd(current_tag, dockerfile_path, build_args_for_manage,
                                    Dirname(dockerfile_path))
       IN  \/ /\ Run(argv, "ok")
              /\ Returned("BuiltLocalOnly")
              /\ UNCHANGED raised
           \/ CommandFailed(argv)
           \/ DockerNotFound(argv)
    /\ UNCHANGED <<manage_vars, push_failed>>

NextLocalOnly ==
    \/ ParseArgs
    \/ load_config
    \/ load_image_configs
    \/ Validate
    \/ ComputeOrder
    \/ process_image
    \/ InspectLocalOnly
    \/ BuildLocalOnly
    \/ Finish

SpecLocalOnly == Init /\ [][NextLocalOnly]_vars

\* ------------------------------------------------------------------------
\* list_external_mounts.py: _minimize_paths
\* ------------------------------------------------------------------------

\* The most paths a set given to _minimize_paths holds.
MaxPaths == 3

\* Path components, in the order str compares them.
Components == <<"a", "b">>

\* Every name a path can hold, in the order str compares them.
PartOrder == <<"a", "b", "bazel-out", "d", "e", "f", "g", "l1", "l2", "s", "sub", "t", "z">>

\* Absolute paths as the sequences of their parts below the root.
PathPool == UNION {[1..n -> Range(Components)] : n \in {1, 2, 3}}

PathSets == {S \in SUBSET PathPool : Cardinality(S) <= MaxPaths}

ComponentRank(c) == CHOOSE i \in DOMAIN PartOrder : PartOrder[i] = c

\* Path.__lt__: the parts compared as sequences, part by part.
RECURSIVE PathLess(_, _)
PathLess(p, q) ==
    IF q = <<>> THEN FALSE
    ELSE IF p = <<>> THEN TRUE
    ELSE IF Head(p) # Head(q) THEN ComponentRank(Head(p)) < ComponentRank(Head(q))
    ELSE PathLess(Tail(p), Tail(q))

\* sorted(list(paths))
RECURSIVE SortedPaths(_)
SortedPaths(S) ==
    IF S = {} THEN <<>>
    ELSE LET least == CHOOSE p \in S : \A q \in S \ {p} : PathLess(p, q)
         IN  <<least>> \o SortedPaths(S \ {least})

\* A test that takes a path for relative to any other of the same length
\* or shorter.
is_relative_to_by_length(path, p) == Len(p) <= Len(path)

\* Path.is_relative_to: the parts of p open the parts of path.
is_relative_to(path, p) ==
    /\ Len(p) <= Len(path)
    /\ SubSeq(path, 1, Len(p)) = p

\* A caller hands a set of paths to _minimize_paths, which sorts it.
CallMinimizePaths ==
    /\ pc = "call_minimize_paths"
    /\ sorted_paths' = SortedPaths(paths)
    /\ minimal_paths' = {}
    /\ pc' = "minimize_loop"
    /\ UNCHANGED <<paths, scan_vars, build_vars>>

\* One round of the loop over sorted_paths.
MinimizeStep ==
    /\ pc = "minimize_loop"
    /\ sorted_paths # <<>>
    /\ LET path == Head(sorted_paths)
       IN  IF \E p \in minimal_paths : is_relative_to(path, p)
           THEN UNCHANGED minimal_paths
           ELSE minimal_paths' =
                    (minimal_paths \ {p \in minimal_paths : is_relative_to(p, path)})
                    \cup {path}
    /\ sorted_paths' = Tail(sorted_paths)
    /\ UNCHANGED <<pc, paths, scan_vars, build_vars>>

\* return minimal_paths
ReturnMinimalPaths ==
    /\ pc = "minimize_loop"
    /\ sorted_paths = <<>>
    /\ pc' = "minimize_returned"
    /\ UNCHANGED <<minimize_vars, scan_vars, build_vars>>

\* _minimize_paths called on any set of at most MaxPaths paths.
InitMinimize ==
    /\ pc = "call_minimize_paths"
    /\ REPO = ""
    /\ target_image = None
    /\ print_tag_mode = FALSE
    /\ image_configs_map = EmptyMap
    /\ images_to_process = <<>>
    /\ idx = 1
    /\ generated_tags = EmptyMap
    /\ processed = <<>>
    /\ image_name = None
    /\ dockerfile_path = NoPath
    /\ build_args_for_manage = <<>>
    /\ current_tag = None
    /\ cmds = <<>>
    /\ terminal = None
    /\ raised = NoError
    /\ push_failed = FALSE
    /\ exit_code = None
    /\ diag = None
    /\ paths \in PathSets
    /\ sorted_paths = <<>>
    /\ minimal_paths = {}
    /\ links = <<>>
    /\ worklist = <<>>
    /\ scanned = {}
    /\ external_paths = {}
    /\ pending = <<>>
    /\ current_path = <<>>
    /\ visited_in_chain = {}
    /\ walked = <<>>

NextMinimize == CallMinimizePaths \/ MinimizeStep \/ ReturnMinimalPaths

SpecMinimize == InitMinimize /\ [][NextMinimize]_vars

\* ------------------------------------------------------------------------
\* list_external_mounts.py: list_external_mounts and _process_symlink
\* ------------------------------------------------------------------------

\* The most symlinks the system follows while it resolves one path; a
\* lookup that needs more fails (ELOOP).
MaxSymlinks == 2

\* The directories of the file system: the scan directory, and outside it
\* a directory with a subdirectory and another directory.
scan_dir_abs == <<"s">>
DirOrder == <<<<"s">>, <<"e">>, <<"e", "sub">>, <<"f">>>>
Dirs == Range(DirOrder)

\* What a symlink holds: an absolute path, or a path relative to the
\* directory of the link ("." has no parts).
AbsTarget(parts) == [kind |-> "abs", parts |-> parts]
RelTarget(parts) == [kind |-> "rel", parts |-> parts]
NoLink == [kind |-> "absent", parts |-> <<>>]

\* The places where the file system can hold a symlink, in the order
\* os.walk lists them.
LinkPlaces == <<<<"s", "bazel-out">>, <<"s", "l1">>, <<"s", "l2">>,
                <<"e", "d">>, <<"e", "t">>, <<"f", "g">>>>

\* The file systems: which places hold a link, and to what.  Links leave
\* the scan directory, follow one another, go in a circle, are broken, and
\* make the outer directories point to themselves and to each other.
FileSystems ==
    {(LinkPlaces[1] :> t1) @@ (LinkPlaces[2] :> t2) @@ (LinkPlaces[3] :> t3)
     @@ (LinkPlaces[4] :> t4) @@ (LinkPlaces[5] :> t5) @@ (LinkPlaces[6] :> t6) :
        t1 \in {NoLink, AbsTarget(<<"f">>)},
        t2 \in {NoLink, AbsTarget(<<"e">>), AbsTarget(<<"e", "sub">>), AbsTarget(<<"f">>),
                RelTarget(<<"l2">>), AbsTarget(<<"z">>)},
        t3 \in {NoLink, AbsTarget(<<"e", "sub">>), AbsTarget(<<"f">>), RelTarget(<<"l1">>)},
        t4 \in {NoLink, RelTarget(<<>>), AbsTarget(<<"f">>)},
        t5 \in {NoLink, RelTarget(<<"d">>)},
        t6 \in {NoLink, AbsTarget(<<"e">>), RelTarget(<<>>)}}

Parent(path) == SubSeq(path, 1, Len(path) - 1)

\* The path a link at a place of directory dir stands for.
Join(dir, target) == IF target.kind = "abs" THEN target.parts ELSE dir \o target.parts

IsLinkPlace(place) == place \in DOMAIN links /\ links[place].kind # "absent"

\* The system's path lookup from directory cur along the parts in rest,
\* following at most fuel symlinks; the last part is followed too when
\* follow_last.  It ends at a directory, at a link, or fails.
RECURSIVE Lookup(_, _, _, _)
Lookup(cur, rest, fuel, follow_last) ==
    IF rest = <<>> THEN [kind |-> "dir", at |-> cur]
    ELSE LET place == Append(cur, Head(rest))
         IN  IF IsLinkPlace(place)
             THEN IF Tail(rest) = <<>> /\ ~follow_last
                  THEN [kind |-> "link", at |-> place]
                  ELSE IF fuel = 0 THEN [kind |-> "error", at |-> <<>>]
                  ELSE Lookup(<<>>, Join(cur, links[place]) \o Tail(rest),
                              fuel - 1, follow_last)
             ELSE IF place \in Dirs THEN Lookup(place, Tail(rest), fuel, follow_last)
             ELSE [kind |-> "error", at |-> <<>>]

\* Path.is_symlink, Path.exists, Path.is_dir (the file system holds
\* directories and links only) and Path.readlink
is_symlink(path) == Lookup(<<>>, path, MaxSymlinks, FALSE).kind = "link"
exists(path) == Lookup(<<>>, path, MaxSymlinks, TRUE).kind = "dir"
is_dir(path) == exists(path)
readlink(path) == links[Lookup(<<>>, path, MaxSymlinks, FALSE).at]

\* os.path.commonpath([scan_dir_abs, abs_target]) != scan_dir_abs
IsExternal(abs_target) ==
    ~(/\ Len(scan_dir_abs) <= Len(abs_target)
      /\ SubSeq(abs_target, 1, Len(scan_dir_abs)) = scan_dir_abs)

\* The directory os.walk(top) starts from, if top leads to one.
WalkTop(top) == Lookup(<<>>, top, MaxSymlinks, TRUE)

Under(dir, place) == Len(dir) <= Len(place) /\ SubSeq(place, 1, Len(dir)) = dir

\* The directories os.walk(top, followlinks=False) lists: the one top leads
\* to and the directories below it, no link followed.
WalkedDirs(top) ==
    LET r == WalkTop(top)
        Listed(d) == Under(r.at, d)
    IN  IF r.kind = "dir" THEN SelectSeq(DirOrder, Listed) ELSE <<>>

\* The symlinks that walk hands to _process_symlink, named from top; those
\* named bazel-* right in the scan directory are passed over.
WalkedLinks(top) ==
    LET r == WalkTop(top)
        Found(place) == IsLinkPlace(place) /\ Under(r.at, Parent(place))
        found == IF r.kind = "dir" THEN SelectSeq(LinkPlaces, Found) ELSE <<>>
        named == [i \in DOMAIN found |->
                      top \o SubSeq(found[i], Len(r.at) + 1, Len(found[i]))]
        Kept(path) == ~(Parent(path) = scan_dir_abs /\ path[Len(path)] = "bazel-out")
    IN  SelectSeq(named, Kept)

\* while worklist: pop the first directory and, unless it has been walked
\* from, walk it.
PopWorklist ==
    /\ pc = "scan_loop"
    /\ worklist # <<>>
    /\ LET current_dir == Head(worklist)
       IN  /\ worklist' = Tail(worklist)
           /\ IF current_dir \in scanned
              THEN UNCHANGED <<pc, scanned, walked, pending>>
              ELSE /\ scanned' = scanned \cup {current_dir}
                   /\ walked' = walked \o WalkedDirs(current_dir)
                   /\ pending' = WalkedLinks(current_dir)
                   /\ pc' = "entries"
    /\ UNCHANGED <<links, external_paths, current_path, visited_in_chain,
                   minimize_vars, build_vars>>

\* The walk hands its next symlink to _process_symlink, or is over.
NextEntry ==
    /\ pc = "entries"
    /\ IF pending = <<>>
       THEN /\ pc' = "scan_loop"
            /\ UNCHANGED <<pending, current_path, visited_in_chain>>
       ELSE /\ current_path' = Head(pending)
            /\ pending' = Tail(pending)
            /\ visited_in_chain' = {}
            /\ pc' = "chain"
    /\ UNCHANGED <<links, worklist, scanned, external_paths, walked,
                   minimize_vars, build_vars>>

\* One round of the while loop of _process_symlink.
ProcessSymlinkStep ==
    /\ pc = "chain"
    /\ IF ~is_symlink(current_path) \/ current_path \in visited_in_chain
       THEN /\ pc' = "entries"
            /\ UNCHANGED <<worklist, external_paths, current_path, visited_in_chain>>
       ELSE LET abs_target == Join(Parent(current_path), readlink(current_path))
            IN  /\ visited_in_chain' = visited_in_chain \cup {current_path}
                /\ IF ~exists(abs_target)
                   THEN /\ pc' = "entries"
                        /\ UNCHANGED <<worklist, external_paths, current_path>>
                   ELSE /\ IF IsExternal(abs_target) /\ abs_target \notin external_paths
                           THEN /\ external_paths' = external_paths \cup {abs_target}
                                /\ worklist' = IF is_dir(abs_target)
                                               THEN Append(worklist, abs_target)
                                               ELSE worklist
                           ELSE UNCHANGED <<worklist, external_paths>>
                        /\ current_path' = abs_target
                        /\ UNCHANGED pc
    /\ UNCHANGED <<links, scanned, pending, walked, minimize_vars, build_vars>>

\* return _minimize_paths(external_paths)
ReturnExternalMounts ==
    /\ pc = "scan_loop"
    /\ worklist = <<>>
    /\ paths' = external_paths
    /\ pc' = "call_minimize_paths"
    /\ UNCHANGED <<sorted_paths, minimal_paths, scan_vars, build_vars>>

\* list_external_mounts called on the scan directory of any of the file
\* systems.
InitScan ==
    /\ pc = "scan_loop"
    /\ REPO = ""
    /\ target_image = None
    /\ print_tag_mode = FALSE
    /\ image_configs_map = EmptyMap
    /\ images_to_process = <<>>
    /\ idx = 1
    /\ generated_tags = EmptyMap
    /\ processed = <<>>
    /\ image_name = None
    /\ dockerfile_path = NoPath
    /\ build_args_for_manage = <<>>
    /\ current_tag = None
    /\ cmds = <<>>
    /\ terminal = None
    /\ raised = NoError
    /\ push_failed = FALSE
    /\ exit_code = None
    /\ diag = None
    /\ paths = {}
    /\ sorted_paths = <<>>
    /\ minimal_paths = {}
    /\ links \in FileSystems
    /\ worklist = <<scan_dir_abs>>
    /\ scanned = {}
    /\ external_paths = {}
    /\ pending = <<>>
    /\ current_path = <<>>
    /\ visited_in_chain = {}
    /\ walked = <<>>

NextScan ==
    \/ PopWorklist
    \/ NextEntry
    \/ ProcessSymlinkStep
    \/ ReturnExternalMounts
    \/ CallMinimizePaths
    \/ MinimizeStep
    \/ ReturnMinimalPaths

SpecScan == InitScan /\ [][NextScan]_vars

\* ------------------------------------------------------------------------
\* Vocabulary of the properties
\* ------------------------------------------------------------------------

\* The declarations have been read.
Loaded == pc \notin {"parse_args", "load_config", "load_image_configs"}

\* The order has been computed and the loop entered.
InLoop == pc \in {"loop", "inspect", "manifest", "pull", "build", "push"}
          \/ (pc = "exited" /\ diag \notin {"config_decode_error", "deps_decode_error",
                                           "print_tag_requires_target",
                                           "invalid_print_tag_target", "invalid_target",
                                           "cycle"})

\* The names an image's declaration depends on (none for an undeclared name).
DepsOf(n) == IF n \in DOMAIN image_configs_map THEN DepValues(image_configs_map[n]) ELSE {}

\* Everything reachable from the names in S along dependency edges, S included.
RECURSIVE ClosureOf(_)
ClosureOf(S) ==
    LET step == S \cup UNION {DepsOf(n) : n \in S}
    IN  IF step = S THEN S ELSE ClosureOf(step)

\* Some image of S depends, directly or transitively, on itself.
CycleAmong(S) == \E n \in S : \E d \in DepsOf(n) : n \in ClosureOf({d})

NoRepeats(seq) == \A i, j \in DOMAIN seq : i # j => seq[i] # seq[j]

\* Every dependency of every member stands before it.
DepsFirst(seq) ==
    \A i \in DOMAIN seq : \A d \in DepsOf(seq[i]) : \E j \in 1..(i - 1) : seq[j] = d

\* The docker subcommand of a logged command.
Kind(c) == c.argv[2]

CountKind(k) == Cardinality({i \in DOMAIN cmds : Kind(cmds[i]) = k})

Last(seq) == seq[Len(seq)]

\* The current manage_docker_image call found the image absent locally and
\* the remote manifest present (resp. absent).
RemotePresent ==
    /\ Len(cmds) >= 2
    /\ cmds[1].result = "failed"
    /\ Kind(cmds[2]) = "manifest" /\ cmds[2].result = "ok"

AbsentEverywhere ==
    /\ Len(cmds) >= 2
    /\ cmds[1].result = "failed"
    /\ Kind(cmds[2]) = "manifest" /\ cmds[2].result = "failed"

\* ------------------------------------------------------------------------
\* Properties
\* ------------------------------------------------------------------------

\* C1: in full-graph mode (no target) the computed order and the sequence
\* of images main hands to process_image place every dependency of an image
\* before that image.
C1_FullGraphDepsFirst ==
    target_image = None =>
        /\ DepsFirst(processed)
        /\ InLoop => DepsFirst(images_to_process)

\* A full-graph run that processed three images, one depending on another,
\* and ended normally.
C1_Witness ==
    /\ target_image = None
    /\ pc = "exited" /\ diag = "success"
    /\ Len(processed) = 3
    /\ \E i \in DOMAIN processed : DepsOf(processed[i]) \cap Range(processed) # {}

\* C2: for an acyclic graph and a declared target, every list
\* get_dependency_subgraph can return holds the target and its direct and
\* transitive dependencies, each once, and nothing else, dependencies
\* first; the list main works through is one of them.
C2_SubgraphIsOrderedClosure ==
    LET IsOrderedClosure(o) ==
            /\ NoRepeats(o)
            /\ Range(o) = ClosureOf({target_image})
            /\ DepsFirst(o)
    IN  (/\ Loaded
         /\ target_image \in DOMAIN image_configs_map
         /\ ~CycleAmong(DOMAIN image_configs_map)) =>
            /\ pc = "order" =>
                LET r == get_dependency_subgraph(target_image, image_configs_map)
                IN  /\ ~r.cycle
                    /\ r.orders # {}
                    /\ \A o \in r.orders : IsOrderedClosure(o)
            /\ InLoop => IsOrderedClosure(images_to_process)

\* A target run over a closure of two or more images that left a declared
\* image out because the target does not reach it.
C2_Witness ==
    /\ target_image \in DOMAIN image_configs_map
    /\ pc = "exited" /\ diag = "success"
    /\ Len(images_to_process) >= 2
    /\ processed = images_to_process
    /\ DOMAIN image_configs_map \ Range(images_to_process) # {}

\* C3: whenever the identifier map has an entry for an image, it has an
\* entry for every image named in that image's dependency map, so an entry
\* is only ever written once all of its dependencies' entries exist.
C3_TagsClosedUnderDeps ==
    \A n \in DOMAIN generated_tags : DepsOf(n) \subseteq DOMAIN generated_tags

\* The map holds an image together with an image it depends on.
C3_Witness ==
    \E n \in DOMAIN generated_tags :
        /\ DepsOf(n) # {}
        /\ DepsOf(n) \subseteq DOMAIN generated_tags
        /\ n \notin DepsOf(n)

\* C4: in a run driven by main the 'Dependency tag ... not found' exit of
\* process_image is never taken: whenever process_image has found the
\* recipe of an image and binds its arguments, every dependency of the
\* image has a non-empty tag in the identifier map.
C4_DependenciesAlwaysResolved ==
    /\ diag # "dependency_tag_not_found"
    /\ (image_name # None /\ dockerfile_path # NoPath) =>
            \A d \in DepsOf(image_name) :
                d \in DOMAIN generated_tags /\ generated_tags[d] # ""

\* process_image has bound two arguments and is about to inspect.
C4_Witness ==
    /\ pc = "inspect"
    /\ Len(build_args_for_manage) = 2
    /\ \A i \in DOMAIN build_args_for_manage : build_args_for_manage[i][2] # ""

\* C5: when the images to be processed (every declared image without a
\* target, the target's closure with one) hold a dependency cycle, the run
\* ends with exit status 1 before process_image is called for any image
\* and before any container-runtime command is issued.
C5_CycleAbortsBeforeAnyImage ==
    LET to_process == IF target_image = None THEN DOMAIN image_configs_map
                      ELSE ClosureOf({target_image})
    IN  (/\ Loaded
         /\ target_image = None \/ target_image \in DOMAIN image_configs_map
         /\ CycleAmong(to_process)) =>
            /\ pc \in {"validate", "order", "exited"}
            /\ pc = "exited" => exit_code = 1
            /\ processed = <<>>
            /\ cmds = <<>>
            /\ generated_tags = EmptyMap

\* A target run ended by a cycle through two or more images.
C5_Witness ==
    /\ pc = "exited" /\ diag = "cycle" /\ exit_code = 1
    /\ target_image # None
    /\ Cardinality(ClosureOf({target_image})) >= 2

\* C6: once the local inspect of an image's tag succeeds, it is the only
\* command manage_docker_image issues for that image, and the call returns
\* as Skipped.
C6_LocalImageSkipsEverything ==
    \A i \in DOMAIN cmds :
        (Kind(cmds[i]) = "image" /\ cmds[i].result = "ok") =>
            /\ Len(cmds) = 1
            /\ cmds[1].argv = inspect_cmd(current_tag)
            /\ terminal = "Skipped"
            /\ pc \in {"loop", "exited"}

\* A run whose last image was found locally and that ended normally.
C6_Witness ==
    /\ terminal = "Skipped"
    /\ Len(cmds) = 1
    /\ pc = "exited" /\ diag = "success"

\* C7: when the image is absent locally and the remote manifest check
\* succeeds, manage_docker_image issues one pull of the tag and neither a
\* build nor a push, and a successful pull returns as Pulled.
C7_RemoteImageIsPulledOnce ==
    RemotePresent =>
        /\ CountKind("buildx") = 0
        /\ CountKind("push") = 0
        /\ \/ pc = "pull" /\ Len(cmds) = 2
           \/ /\ Len(cmds) = 3
              /\ cmds[3].argv = pull_cmd(current_tag)
              /\ pc \in {"loop", "exited"}
              /\ cmds[3].result = "ok" => terminal = "Pulled"
              /\ cmds[3].result # "ok" => pc = "exited" /\ terminal = None

\* A call that pulled the image and returned.
C7_Witness ==
    /\ RemotePresent
    /\ terminal = "Pulled"
    /\ Len(cmds) = 3 /\ cmds[3].result = "ok"

\* C8: when the image is absent both locally and remotely,
\* manage_docker_image issues one build and, once the build has succeeded,
\* one push of the same tag, and no pull.
C8_AbsentImageIsBuiltThenPushed ==
    AbsentEverywhere =>
        /\ CountKind("pull") = 0
        /\ \/ pc = "build" /\ Len(cmds) = 2
           \/ /\ Len(cmds) >= 3
              /\ Kind(cmds[3]) = "buildx"
              /\ cmds[3].argv[5] = current_tag
              /\ \/ Len(cmds) = 3 /\ cmds[3].result = "ok" /\ pc = "push"
                 \/ Len(cmds) = 3 /\ cmds[3].result # "ok" /\ pc = "exited"
                 \/ /\ Len(cmds) = 4
                    /\ cmds[3].result = "ok"
                    /\ cmds[4].argv = push_cmd(current_tag)
                    /\ pc \in {"loop", "exited"}

\* A call that built and pushed the image.
C8_Witness ==
    /\ AbsentEverywhere
    /\ Len(cmds) = 4
    /\ cmds[3].result = "ok" /\ cmds[4].result = "ok"
    /\ terminal = "Published"

\* C9: a failed push is not fatal.  The step in which a push fails returns
\* from manage_docker_image as BuiltLocalOnly with no exception, leaves the
\* identifier map as it is with the image's tag in it, and either moves
\* main's loop to the next image or, in print-tag mode on the target, exits
\* with status 0; and a run in which a push failed exits with a non-zero
\* status only through a failure of something other than a push.
C9_PushFailureIsNotFatal ==
    /\ [][(pc = "push" /\ Last(cmds').result = "failed") =>
            /\ terminal' = "BuiltLocalOnly"
            /\ raised' = NoError
            /\ generated_tags' = generated_tags
            /\ image_name \in DOMAIN generated_tags
            /\ generated_tags[image_name] = current_tag
            /\ \/ pc' = "loop" /\ idx' = idx + 1 /\ exit_code' = None
               \/ pc' = "exited" /\ exit_code' = 0]_vars
    /\ []((push_failed /\ pc = "exited" /\ exit_code # 0) =>
            diag \in {"KeyError", "dockerfile_not_found", "dockerfile_disappeared",
                      "docker_error", "docker_not_found"})

\* A run that went on after a failed push to an image found locally and
\* ended with status 0.
C9_Witness ==
    /\ push_failed
    /\ pc = "exited" /\ diag = "success" /\ exit_code = 0
    /\ Len(processed) >= 2
    /\ terminal = "Skipped"
    /\ Range(processed) = DOMAIN generated_tags

\* C10: a pull or build that fails is the last command of the run: the run
\* has exited with the status of the command, or 1 when that status is 0,
\* and no push was issued for the image.
C10_PullOrBuildFailureIsFatal ==
    \A i \in DOMAIN cmds :
        (Kind(cmds[i]) \in {"pull", "buildx"} /\ cmds[i].result = "failed") =>
            /\ i = Len(cmds)
            /\ pc = "exited"
            /\ raised.type = "CalledProcessError"
            /\ exit_code = IF raised.returncode # 0 THEN raised.returncode ELSE 1
            /\ CountKind("push") = 0

\* A build failed with status 2 and the run exited with 2.
C10_Witness ==
    /\ pc = "exited" /\ exit_code = 2
    /\ cmds # <<>> /\ Kind(Last(cmds)) = "buildx" /\ Last(cmds).result = "failed"
    /\ raised = CalledProcessError(2)


\* The place of a position of the run in manage_docker_image's sequence of
\* steps; 0 outside of it.
StepRank(p) ==
    CASE p = "inspect" -> 1
      [] p = "manifest" -> 2
      [] p \in {"pull", "build"} -> 3
      [] p = "push" -> 4
      [] OTHER -> 0

\* The commands of the current manage_docker_image call are a prefix of
\* inspect, manifest inspect, then pull or build, then push, each step taken
\* only on the outcome that leads to it.
ForwardPass ==
    LET n == Len(cmds)
    IN  /\ n <= 4
        /\ \A k \in {"image", "manifest", "pull", "buildx", "push"} : CountKind(k) <= 1
        /\ n >= 1 => cmds[1].argv = inspect_cmd(current_tag)
        /\ n >= 2 => /\ cmds[1].result = "failed"
                     /\ cmds[2].argv = manifest_inspect_cmd(current_tag)
        /\ n >= 3 => \/ /\ cmds[2].result = "ok"
                        /\ cmds[3].argv = pull_cmd(current_tag)
                        /\ n = 3
                     \/ /\ cmds[2].result = "failed"
                        /\ Kind(cmds[3]) = "buildx"
        /\ n >= 4 => /\ Kind(cmds[3]) = "buildx" /\ cmds[3].result = "ok"
                     /\ cmds[4].argv = push_cmd(current_tag)
        /\ StepRank(pc) # 0 => n = StepRank(pc) - 1

\* C11: for each image the commands of manage_docker_image form one forward
\* pass.  The inspect comes first, the manifest inspect only after a failed
\* inspect, the pull only after a successful manifest inspect, the build
\* only after a failed one, the push only after a successful build; no kind
\* of command is issued twice for the image, and a step of the call only
\* leads to a later step, never to itself or an earlier one.
C11_CommandsFormOneForwardPass ==
    /\ [] ForwardPass
    /\ [][StepRank(pc) # 0 /\ StepRank(pc') # 0 => StepRank(pc') > StepRank(pc)]_vars

C11_Witness ==
    /\ Len(cmds) = 4
    /\ terminal = "BuiltLocalOnly"
    /\ pc = "loop"
    /\ Len(processed) = 2


\* The exits that end a run while an image is being processed: recipe not
\* found or unreadable, dependency without a tag, failed pull or build,
\* missing docker binary.
FatalDiags == {"dockerfile_not_found", "dockerfile_disappeared", "dependency_tag_not_found",
               "docker_error", "docker_not_found"}

\* Every logged command is an inspect, a manifest inspect, a pull, a build
\* or a push: none removes an image.
OnlyForwardCommands ==
    \A i \in DOMAIN cmds :
        LET argv == cmds[i].argv
        IN  /\ argv[1] = "docker"
            /\ \/ argv[2] \in {"image", "manifest"} /\ argv[3] = "inspect"
               \/ argv[2] \in {"pull", "push"} /\ Len(argv) = 3
               \/ argv[2] = "buildx" /\ argv[3] = "build"

\* C12: once a fatal error has ended the processing of an image, nothing
\* happens any more: no recipe is looked up, no hash computed and no command
\* issued for any later image, the tags of the images completed before stay
\* recorded, and no command of the run removes an image.
C12_FatalErrorStopsTheSchedule ==
    /\ [][(diag \in FatalDiags) => UNCHANGED vars]_vars
    /\ [] (diag \in FatalDiags =>
             /\ pc = "exited" /\ exit_code # 0
             /\ \A i \in 1..(Len(processed) - 1) : processed[i] \in DOMAIN generated_tags)
    /\ [] OnlyForwardCommands

C12_Witness ==
    /\ pc = "exited" /\ diag = "docker_error"
    /\ Len(processed) = 2
    /\ idx < Len(images_to_process)
    /\ Kind(Last(cmds)) = "pull"


\* C13: in print-tag mode with a declared target, a run that meets no fatal
\* error processes the target's dependencies and then the target, and as
\* soon as manage_docker_image has returned for the target it prints the
\* target's tag and exits with status 0: the target is the last image
\* processed, exactly the target's closure has been processed, dependencies
\* first, and a print-tag run never ends in another successful way.
C13_PrintTagStopsAtTheTarget ==
    /\ (print_tag_mode /\ image_name = target_image /\ terminal # None) =>
         /\ pc = "exited" /\ diag = "print_tag" /\ exit_code = 0
    /\ (pc = "exited" /\ diag = "print_tag") =>
         /\ print_tag_mode
         /\ exit_code = 0
         /\ target_image \in DOMAIN image_configs_map
         /\ terminal \in {"Skipped", "Pulled", "Published", "BuiltLocalOnly"}
         /\ Last(processed) = target_image
         /\ current_tag = generated_tags[target_image]
         /\ processed = images_to_process
         /\ NoRepeats(processed)
         /\ Range(processed) = ClosureOf({target_image})
         /\ DepsFirst(processed)
    /\ (print_tag_mode /\ pc = "exited" /\ exit_code = 0) => diag = "print_tag"

C13_Witness ==
    /\ pc = "exited" /\ diag = "print_tag" /\ exit_code = 0
    /\ Len(processed) = 2
    /\ DOMAIN image_configs_map \ Range(processed) # {}
    /\ terminal = "Pulled"


\* ------------------------------------------------------------------------
\* The hash inputs of the images addressed so far
\* ------------------------------------------------------------------------

\* The recipe of image n under search path d.
FileOf(n, d) == <<d, n \o ".Dockerfile">>

\* The sorted "NAME=VALUE" strings hashed for image n.
PairsOf(n) == BuildArgsForShaCalc(image_configs_map[n], generated_tags)

\* The tag image n gets when its recipe is found under search path d.
TagFrom(n, d) == get_image_tag(n, calculate_sha256(FileOf(n, d), PairsOf(n)))

\* The recorded tag of n is the tag of one of its possible recipes.
Addressed(n) == \E d \in Range(SearchPaths) : generated_tags[n] = TagFrom(n, d)

\* The search path the recorded tag of n was computed from.
DirOf(n) == CHOOSE d \in Range(SearchPaths) : generated_tags[n] = TagFrom(n, d)

\* The recipe bytes and the digest behind the recorded tag of n.
BytesOf(n) == ReadFile(FileOf(n, DirOf(n)))
ShaOf(n) == calculate_sha256(FileOf(n, DirOf(n)), PairsOf(n))

\* C14: the content hash depends only on the recipe bytes and on the set of
\* NAME=VALUE pairs.  When an image has been addressed, hashing its recipe
\* with its dependency map listed in any other order gives the same pair
\* list, BASE before FROM, and the same tag; and its digest is the digest of
\* every image addressed before it with the same recipe bytes and the same
\* pairs.
C14_HashIgnoresInsertionOrder ==
    /\ pc = "inspect" =>
         LET deps == image_configs_map[image_name]
             pairs == BuildArgsForShaCalc(deps, generated_tags)
         IN  /\ \A i, j \in DOMAIN deps :
                    i < j => ArgRank(SortedDeps(deps)[i][1]) < ArgRank(SortedDeps(deps)[j][1])
             /\ \A listed \in Orderings(Range(deps)) :
                    /\ BuildArgsForShaCalc(listed, generated_tags) = pairs
                    /\ get_image_tag(image_name,
                                     calculate_sha256(dockerfile_path,
                                         BuildArgsForShaCalc(listed, generated_tags)))
                       = current_tag
    /\ pc = "inspect" =>
         \A m \in DOMAIN generated_tags :
             /\ Addressed(m)
             /\ (BytesOf(image_name) = BytesOf(m)
                 /\ Range(PairsOf(image_name)) = Range(PairsOf(m)))
                  => ShaOf(image_name) = ShaOf(m)

\* An image whose dependency map lists FROM before BASE has been addressed,
\* and two images with the same recipe bytes and pairs have been addressed.
C14_Witness ==
    /\ pc = "inspect"
    /\ Len(image_configs_map[image_name]) = 2
    /\ image_configs_map[image_name][1][1] = "FROM"
    /\ \E n, m \in DOMAIN generated_tags :
         n # m /\ BytesOf(n) = BytesOf(m) /\ PairsOf(n) = PairsOf(m)


\* The digests and tags process_image computes for the images of seq, taken
\* in that order, when the recipe of image n is the one under dirs[n].
RECURSIVE PlansUnder(_, _)
PlansUnder(seq, dirs) ==
    IF seq = <<>> THEN EmptyMap
    ELSE LET prev == PlansUnder(SubSeq(seq, 1, Len(seq) - 1), dirs)
             tags == [m \in DOMAIN prev |-> prev[m].tag]
             n == seq[Len(seq)]
             sha == calculate_sha256(FileOf(n, dirs[n]),
                                     BuildArgsForShaCalc(image_configs_map[n], tags))
         IN  (n :> [sha |-> sha, tag |-> get_image_tag(n, sha)]) @@ prev

\* The search path each processed image's recipe was found under.
ActualDirs == [n \in Range(processed) |-> DirOf(n)]

ShasSeen == {ShaOf(n) : n \in DOMAIN generated_tags}

\* C16: the tag of an image is "<prefix>/devkit/<name>:amd64-<digest>" when
\* a registry prefix is configured and "devkit/<name>:amd64-<digest>", with
\* neither prefix nor separator, when none is; tags made from different
\* names or from different digests are different.
C16_TagFormat ==
    pc = "inspect" =>
        /\ REPO = "" =>
             current_tag = "devkit/" \o image_name \o ":amd64-" \o ShaOf(image_name)
        /\ REPO # "" =>
             current_tag = REPO \o "/devkit/" \o image_name \o ":amd64-" \o ShaOf(image_name)
        /\ REPO \in Registries \cup {""}
        /\ \A n, m \in DOMAIN generated_tags : \A s, t \in ShasSeen :
             <<n, s>> # <<m, t>> => get_image_tag(n, s) # get_image_tag(m, t)
        /\ \A m \in DOMAIN generated_tags \ {image_name} : generated_tags[m] # current_tag

\* With a registry prefix, a second image gets the digest of the first and
\* another tag.
C16_Witness ==
    /\ pc = "inspect"
    /\ REPO = "my-repo"
    /\ \E m \in DOMAIN generated_tags \ {image_name} : ShaOf(m) = ShaOf(image_name)
    /\ Cardinality(ShasSeen) = 2


\* C17: the identifier map only grows.  A step of the run leaves every
\* entry of generated_tags in place with its value; when it changes the map
\* it adds the entry of one image that had none, the image process_image
\* was just called for; and process_image is called at most once for each
\* image, so each entry is written once.
C17_IdentifierMapOnlyGrows ==
    /\ [][/\ \A n \in DOMAIN generated_tags :
               /\ n \in DOMAIN generated_tags'
               /\ generated_tags'[n] = generated_tags[n]
          /\ generated_tags' # generated_tags =>
               \E n \in DOMAIN generated_tags' \ DOMAIN generated_tags :
                   /\ DOMAIN generated_tags' = DOMAIN generated_tags \cup {n}
                   /\ processed' = Append(processed, n)
                   /\ generated_tags'[n] = current_tag']_vars
    /\ [] (NoRepeats(processed) /\ DOMAIN generated_tags \subseteq Range(processed))

C17_Witness ==
    /\ Cardinality(DOMAIN generated_tags) = 3
    /\ pc = "loop"
    /\ push_failed


\* Some declared image that is to be processed names a dependency that no
\* declaration declares.
UndeclaredDependencyAhead ==
    \E n \in Range(images_to_process) \cap DOMAIN image_configs_map :
        DepsOf(n) \ DOMAIN image_configs_map # {}

\* C18, as the specification states it: when an image to be processed names
\* an undeclared dependency, a run that no recipe or container-runtime
\* failure has ended before ends with the 'Dependency tag ... not found'
\* diagnostic and exit status 1, raised while the dependent image binds its
\* arguments, with no command issued for the dependent image.  The code
\* ends such a run with an uncaught KeyError in main instead.
C18_UndeclaredDependencyIsReported ==
    (/\ pc = "exited"
     /\ UndeclaredDependencyAhead
     /\ diag \notin {"dockerfile_not_found", "dockerfile_disappeared", "docker_error",
                     "docker_not_found"})
    => /\ diag = "dependency_tag_not_found"
       /\ exit_code = 1
       /\ DepsOf(image_name) \ DOMAIN image_configs_map # {}
       /\ image_name \notin DOMAIN generated_tags
       /\ cmds = <<>>


\* The run has passed the argument checks and the ordering step.
PastOrder == InLoop \/ (pc = "exited" /\ diag = "cycle")

\* The images the run is asked to process: the target and everything it
\* depends on, or every declared image.
ToProcess == IF target_image # None THEN ClosureOf({target_image})
             ELSE DOMAIN image_configs_map

\* C19, as the specification states it: whenever the declared graph holds a
\* cycle anywhere, every run that reaches the ordering step, full-graph or
\* with a target, ends there with exit status 1 and processes no image.
C19_AnyCycleAbortsEveryRun ==
    (PastOrder /\ CycleAmong(DOMAIN image_configs_map))
    => /\ pc = "exited" /\ diag = "cycle" /\ exit_code = 1
       /\ processed = <<>>

\* C19, amended: a run that reaches the ordering step ends there as a cycle
\* error, with exit status 1 and before any image is processed or any
\* command issued, exactly when the images it is asked to process hold a
\* cycle: the whole graph without a target, the target's closure with one.
\* A cycle among images outside the target's closure does not end the run.
C19_CycleAbortsExactlyItsOwnRun ==
    PastOrder =>
        /\ (pc = "exited" /\ diag = "cycle") <=> CycleAmong(ToProcess)
        /\ (pc = "exited" /\ diag = "cycle") =>
             /\ exit_code = 1
             /\ images_to_process = <<>> /\ processed = <<>>
             /\ generated_tags = EmptyMap /\ cmds = <<>>

\* A target run builds its target while two other images depend on each
\* other.
C19_Witness ==
    /\ target_image \in DOMAIN image_configs_map
    /\ ~CycleAmong(ClosureOf({target_image}))
    /\ CycleAmong(DOMAIN image_configs_map)
    /\ pc = "push"
    /\ image_name = target_image


\* C20: when a target is given that no declaration declares, with or
\* without print-tag mode, a run that has read its documents ends in the
\* argument checks with exit status 1: no order is computed, no image is
\* processed and no command is issued.
C20_UndeclaredTargetIsRejected ==
    (/\ Loaded /\ pc # "validate"
     /\ diag \notin {"config_decode_error", "deps_decode_error"}
     /\ target_image # None
     /\ target_image \notin DOMAIN image_configs_map)
    => /\ pc = "exited" /\ exit_code = 1
       /\ diag = IF print_tag_mode THEN "invalid_print_tag_target" ELSE "invalid_target"
       /\ images_to_process = <<>>
       /\ processed = <<>> /\ image_name = None
       /\ generated_tags = EmptyMap
       /\ cmds = <<>>

\* A run without print-tag mode rejected for a target that other
\* declarations do not hold.
C20_Witness ==
    /\ pc = "exited" /\ diag = "invalid_target" /\ exit_code = 1
    /\ ~print_tag_mode
    /\ target_image \in Range(ImageNames)
    /\ Cardinality(DOMAIN image_configs_map) = 2


\* C21: in print-tag mode a run whose loop comes to its end, the target's
\* step not having printed the tag (the order is empty or lacks the target),
\* ends with exit status 1 and not as a success; a print-tag run ends with
\* status 0 only from the target's step.
C21_PrintTagFallbackExitsOne ==
    /\ (pc = "exited" /\ diag = "print_tag_not_processed") =>
         /\ exit_code = 1
         /\ print_tag_mode
         /\ target_image \notin Range(processed)
         /\ processed = images_to_process
    /\ (print_tag_mode /\ InLoop /\ pc = "exited" /\ idx > Len(images_to_process)) =>
         /\ diag = "print_tag_not_processed" /\ exit_code = 1
    /\ (print_tag_mode /\ pc = "exited" /\ exit_code = 0) =>
         /\ diag = "print_tag"
         /\ image_name = target_image

\* A patched order of two images without the target has been processed to
\* its end in print-tag mode.
C21_Witness ==
    /\ pc = "exited" /\ diag = "print_tag_not_processed" /\ exit_code = 1
    /\ Len(processed) = 2
    /\ target_image \in DOMAIN image_configs_map


\* C22: get_dependency_subgraph called with a target that no declaration
\* declares returns the empty list: the call returns, the run is not ended
\* and no cycle is reported.
C22_UndeclaredTargetGivesEmptyOrder ==
    /\ (pc = "unit_returned" /\ target_image \notin DOMAIN image_configs_map) =>
         /\ images_to_process = <<>>
         /\ exit_code = None /\ diag = None
    /\ (pc = "exited" /\ diag = "cycle") => target_image \in DOMAIN image_configs_map
    /\ pc \in {"unit_subgraph", "order"} =>
         \A t \in AllNames \ DOMAIN image_configs_map :
             get_dependency_subgraph(t, image_configs_map) = [cycle |-> FALSE, orders |-> {<<>>}]

\* The call has returned for an undeclared target while the declarations
\* hold a cycle.
C22_Witness ==
    /\ pc = "unit_returned"
    /\ target_image \notin DOMAIN image_configs_map
    /\ CycleAmong(DOMAIN image_configs_map)
    /\ images_to_process = <<>>


\* C23: process_image takes the recipe '<image>.Dockerfile' from the first
\* search path, in the given order, that holds it: from the first path when
\* both hold it, from the second when only the second does.  When no search
\* path holds it the run ends with exit status 1, no tag written for the
\* image and no container-runtime command issued.
C23_FirstSearchPathWins ==
    /\ dockerfile_path # NoPath =>
         /\ dockerfile_path[1] \in Range(SearchPaths)
         /\ dockerfile_path[2] = image_name \o ".Dockerfile"
    /\ pc = "inspect" =>
         /\ FindDockerfile(image_name, {1, 2}) = <<SearchPaths[1], image_name \o ".Dockerfile">>
         /\ FindDockerfile(image_name, {1}) = <<SearchPaths[1], image_name \o ".Dockerfile">>
         /\ FindDockerfile(image_name, {2}) = <<SearchPaths[2], image_name \o ".Dockerfile">>
         /\ FindDockerfile(image_name, {}) = NoPath
         /\ \A holding \in SUBSET DOMAIN SearchPaths :
              \A i \in holding :
                  FindDockerfile(image_name, holding)[1] = SearchPaths[i]
                  => \A j \in holding : i <= j
    /\ (pc = "exited" /\ diag = "dockerfile_not_found") =>
         /\ exit_code = 1
         /\ dockerfile_path = NoPath
         /\ Last(processed) = image_name
         /\ image_name \notin DOMAIN generated_tags
         /\ cmds = <<>>
    /\ (InLoop /\ image_name # None /\ dockerfile_path = NoPath) =>
         /\ pc = "exited" /\ diag = "dockerfile_not_found"

\* The recipe of a first image was found under the second search path only,
\* and no search path holds the recipe of the next image.
C23_Witness ==
    /\ pc = "exited" /\ diag = "dockerfile_not_found"
    /\ Len(processed) = 2
    /\ DirOf(processed[1]) = SearchPaths[2]


\* The next image of the loop is declared and one of its dependencies has
\* no entry in the identifier map.
NextLacksDependencyTag ==
    /\ pc = "loop"
    /\ idx <= Len(images_to_process)
    /\ images_to_process[idx] \in DOMAIN image_configs_map
    /\ ~DepsResolved(image_configs_map[images_to_process[idx]], generated_tags)

\* C24: when process_image is called for an image one of whose dependencies
\* has no entry in the identifier map, the call ends the run with exit
\* status 1, at the recipe lookup or at the binding of the arguments, and
\* leaves the identifier map as it was: no tag is computed, no entry is
\* written for the image and no container-runtime command is issued.
C24_MissingDependencyTagStopsTheImage ==
    /\ [][NextLacksDependencyTag =>
            /\ pc' = "exited" /\ exit_code' = 1
            /\ diag' \in {"dependency_tag_not_found", "dockerfile_not_found"}
            /\ image_name' = images_to_process[idx]
            /\ generated_tags' = generated_tags
            /\ current_tag' = current_tag
            /\ cmds' = <<>>]_vars
    /\ [] ((pc = "exited" /\ diag = "dependency_tag_not_found") =>
             /\ exit_code = 1
             /\ dockerfile_path # NoPath
             /\ DepsOf(image_name) \ DOMAIN generated_tags # {}
             /\ image_name \notin DOMAIN generated_tags
             /\ cmds = <<>>)

\* The run has ended at the binding of an image's arguments, the tag of an
\* image processed before it standing in the map.
C24_Witness ==
    /\ pc = "exited" /\ diag = "dependency_tag_not_found"
    /\ Len(processed) = 2
    /\ DOMAIN generated_tags = {processed[1]}
    /\ Len(image_configs_map[image_name]) = 2


C26_InspectFailureIsFatal ==
    (cmds # <<>> /\ cmds[1].result = "failed") =>
        /\ pc = "exited" /\ diag = "docker_error"
        /\ Len(cmds) = 1
        /\ exit_code = ErrorExitCode(raised.returncode)

\* C26, amended: a non-zero exit status of the local inspect is not an
\* error.  It means the image is absent locally: no exception is raised, the
\* run does not end there and the next command of the call is the manifest
\* inspect.  The commands whose non-zero status ends the run, with that
\* status or 1 when it is 0, are the pull and the build.
C26_InspectFailureMeansAbsent ==
    /\ (cmds # <<>> /\ cmds[1].result = "failed") =>
         /\ Kind(cmds[1]) = "image"
         /\ IF Len(cmds) = 1
            THEN pc = "manifest" /\ exit_code = None /\ raised = NoError
            ELSE cmds[2].argv = manifest_inspect_cmd(current_tag)
    /\ (pc = "exited" /\ diag = "docker_error") =>
         /\ Kind(Last(cmds)) \in {"pull", "buildx"}
         /\ Last(cmds).result = "failed"
         /\ raised.type = "CalledProcessError"
         /\ exit_code = IF raised.returncode = 0 THEN 1 ELSE raised.returncode

\* The inspect of a second image has come back non-zero and the run stands
\* before the manifest inspect.
C26_Witness ==
    /\ pc = "manifest"
    /\ Len(processed) = 2
    /\ Len(cmds) = 1 /\ cmds[1].result = "failed"


\* The exits for a settings or declaration document that cannot be decoded,
\* for rejected arguments, for an undeclared name in the order, for a recipe
\* or dependency tag that is missing, and for a cycle.
ConfigValidationCycleDiags ==
    {"config_decode_error", "deps_decode_error", "print_tag_requires_target",
     "invalid_print_tag_target", "invalid_target", "KeyError", "dockerfile_not_found",
     "dockerfile_disappeared", "dependency_tag_not_found", "print_tag_not_processed",
     "cycle"}

SuccessfulTerminals == {"Skipped", "Pulled", "Published", "BuiltLocalOnly"}

\* C27: a run ends with exit status 0 exactly when it ends as a success or
\* by printing the target's tag, no configuration, validation or cycle
\* error having occurred and every image it processed having reached a
\* successful terminal state; it ends with 1 on a configuration, validation
\* or cycle error and when the docker binary is missing, and with the
\* non-zero status of the command when a pull or build fails.
C27_ExitCodes ==
    pc = "exited" =>
        /\ exit_code \in 0..MaxReturnCode
        /\ diag \in ConfigValidationCycleDiags
                    \cup {"docker_error", "docker_not_found", "success", "print_tag"}
        /\ exit_code = 0 <=> diag \in {"success", "print_tag"}
        /\ exit_code = 0 =>
             /\ raised = NoError
             /\ Range(processed) = DOMAIN generated_tags
             /\ processed # <<>> => terminal \in SuccessfulTerminals
             /\ diag = "success" => processed = images_to_process
        /\ (/\ InLoop
            /\ diag \notin ConfigValidationCycleDiags
            /\ processed = <<>> \/ terminal \in SuccessfulTerminals) => exit_code = 0
        /\ diag \in ConfigValidationCycleDiags \cup {"docker_not_found"} => exit_code = 1
        /\ (diag = "docker_error" /\ raised.returncode # 0) => exit_code = raised.returncode

\* A pull of the first image has failed with the largest status and the run
\* has ended with that status.
C27_Witness ==
    /\ pc = "exited" /\ exit_code = MaxReturnCode
    /\ Len(processed) = 1
    /\ Kind(Last(cmds)) = "pull"
    /\ raised = CalledProcessError(MaxReturnCode)


\* C28: a settings document or a declaration document that is there and
\* cannot be decoded ends the run with exit status 1 at once: no order is
\* computed, no recipe looked up, no tag made and no container-runtime
\* command issued; after an undecodable settings document the declarations
\* are not read either.
C28_UndecodableDocumentEndsTheRun ==
    diag \in {"config_decode_error", "deps_decode_error"} =>
        /\ pc = "exited" /\ exit_code = 1
        /\ images_to_process = <<>>
        /\ processed = <<>> /\ image_name = None
        /\ dockerfile_path = NoPath
        /\ generated_tags = EmptyMap /\ current_tag = None
        /\ cmds = <<>>
        /\ image_configs_map = EmptyMap
        /\ diag = "config_decode_error" => REPO = ""

\* The settings were read, with a registry in them, and a declaration
\* document could not be decoded.
C28_Witness ==
    /\ pc = "exited" /\ diag = "deps_decode_error" /\ exit_code = 1
    /\ REPO = "my-repo"
    /\ target_image # None


\* Whether the document of search path i declares image n.
Declares(docs, i, n) ==
    docs[i].kind = "dict" /\ n \in DOMAIN docs[i].configs

\* C29: when several search paths declare the same image name, the loaded
\* declarations hold for it exactly the dependency map of the last search
\* path that declares it, as a whole; an image that one path alone declares
\* keeps that path's declaration, and nothing else is loaded.
C29_LastSearchPathWins ==
    pc = "validate" =>
        \A docs \in DocsFor(image_configs_map) :
            /\ MergeDocuments(docs) = image_configs_map
            /\ DOMAIN image_configs_map =
                   UNION {IF docs[i].kind = "dict" THEN DOMAIN docs[i].configs
                          ELSE {} : i \in DOMAIN docs}
            /\ \A n \in DOMAIN image_configs_map : \A i \in DOMAIN docs :
                   (/\ Declares(docs, i, n)
                    /\ \A j \in DOMAIN docs : j > i => ~Declares(docs, j, n))
                       => image_configs_map[n] = docs[i].configs[n]

\* The declarations were loaded from two documents that both declare one
\* image, with different dependency maps, and the first alone declares
\* another.
C29_Witness ==
    /\ pc = "validate"
    /\ \E docs \in DocsFor(image_configs_map) :
        /\ \E n \in DOMAIN image_configs_map :
            /\ Declares(docs, 1, n) /\ Declares(docs, 2, n)
            /\ docs[1].configs[n] # docs[2].configs[n]
            /\ Len(docs[2].configs[n]) > 0
        /\ \E n \in DOMAIN image_configs_map :
            Declares(docs, 1, n) /\ ~Declares(docs, 2, n)


\* The positions of the --build-arg flags in a command.
BuildArgPositions(argv) ==
    {k \in 1..(Len(argv) - 1) : argv[k] = "--build-arg"}

\* C30: the build command of an image carries the image's computed tag, its
\* recipe path, exactly one --build-arg NAME=VALUE flag for each entry of
\* the image's dependency map, VALUE being the recorded tag of the named
\* dependency, and the recipe's directory as the build context.
C30_BuildCommandShape ==
    (cmds # <<>> /\ Kind(Last(cmds)) = "buildx") =>
        LET argv == Last(cmds).argv
            deps == image_configs_map[image_name]
            flags == BuildArgPositions(argv)
        IN  /\ SubSeq(argv, 1, 7) =
                   <<"docker", "buildx", "build", "--tag", generated_tags[image_name],
                     "--file", JoinPath(dockerfile_path)>>
            /\ generated_tags[image_name] = current_tag
            /\ dockerfile_path[2] = image_name \o ".Dockerfile"
            /\ Len(argv) = 8 + 2 * Len(deps)
            /\ Cardinality(flags) = Len(deps)
            /\ \A i \in DOMAIN deps :
                   Cardinality({k \in flags :
                       argv[k + 1] = deps[i][1] \o "=" \o generated_tags[deps[i][2]]}) = 1
            /\ argv[Len(argv)] = dockerfile_path[1]
            /\ Len(argv) \notin flags /\ (Len(argv) - 1) \notin flags

\* An image with two dependencies has been built.
C30_Witness ==
    /\ pc = "push"
    /\ cmds # <<>> /\ Kind(Last(cmds)) = "buildx" /\ Last(cmds).result = "ok"
    /\ Len(image_configs_map[image_name]) = 2
    /\ image_configs_map[image_name][1][2] # image_configs_map[image_name][2][2]


\* C31: for a declared target whose subgraph has no cycle, the target is
\* the last element of every list get_dependency_subgraph can return, so a
\* target run works through a list that ends with the target and processes
\* no image after it.
C31_TargetIsLast ==
    (Loaded /\ target_image \in DOMAIN image_configs_map) =>
        /\ pc = "order" =>
            LET r == get_dependency_subgraph(target_image, image_configs_map)
            IN  ~r.cycle =>
                    \A o \in r.orders : o # <<>> /\ Last(o) = target_image
        /\ InLoop =>
            /\ images_to_process # <<>>
            /\ Last(images_to_process) = target_image
            /\ \A i \in DOMAIN processed :
                   processed[i] = target_image => i = Len(processed)

\* A target run has processed its target after the image it depends on,
\* while the declarations hold an image the target does not reach.
C31_Witness ==
    /\ pc = "exited" /\ diag = "success"
    /\ target_image \in DOMAIN image_configs_map
    /\ Len(processed) = 2 /\ Last(processed) = target_image
    /\ DOMAIN image_configs_map \ Range(processed) # {}


\* The tag a container-runtime command names.
TagOf(c) ==
    IF Kind(c) \in {"image", "manifest"} THEN c.argv[4]
    ELSE IF Kind(c) = "buildx" THEN c.argv[5]
    ELSE c.argv[3]

\* Every command logged for the current image names the tag the identifier
\* map holds for it.
CommandsUseRecordedTag ==
    \A i \in DOMAIN cmds :
        /\ image_name \in DOMAIN generated_tags
        /\ TagOf(cmds[i]) = generated_tags[image_name]

\* C32: the tag of an image is in the identifier map before the first
\* container-runtime command for the image is issued, it does not change
\* while the commands are issued, and every command for the image (inspect,
\* manifest inspect, pull, build, push) names exactly that tag.
C32_TagRecordedBeforeCommands ==
    /\ [] CommandsUseRecordedTag
    /\ [][Len(cmds') > Len(cmds) =>
            /\ image_name \in DOMAIN generated_tags
            /\ image_name' = image_name
            /\ generated_tags' = generated_tags
            /\ TagOf(Last(cmds')) = generated_tags[image_name]]_vars

\* An image with a dependency went through inspect, manifest inspect, build
\* and push.
C32_Witness ==
    /\ pc = "loop" /\ terminal = "Published"
    /\ Len(cmds) = 4
    /\ {Kind(cmds[i]) : i \in DOMAIN cmds} = {"image", "manifest", "buildx", "push"}
    /\ Len(image_configs_map[image_name]) > 0


\* The loop of main has run to its end, or the run has ended without a fatal
\* error.
LoopEnded ==
    \/ pc = "loop" /\ idx > Len(images_to_process)
    \/ pc = "exited" /\ diag \in {"success", "print_tag"}

\* The images the run is to process: every declared image, or the target
\* and what it reaches.
ImagesOfTheRun ==
    IF target_image = None THEN DOMAIN image_configs_map ELSE ClosureOf({target_image})

\* C33: the driver processes the images of the computed order one at a
\* time, in that order and each once: a new image is started only when the
\* loop is between two images, and it is the next one of the order.  When
\* the loop has ended without a fatal error, every image of the order has
\* been processed, and the keys of the identifier map are exactly the
\* processed images: all declared images in full-graph mode, the target's
\* closure in target mode.
C33_EachImageOnceInOrder ==
    /\ [] (InLoop =>
            /\ NoRepeats(images_to_process)
            /\ Len(processed) <= Len(images_to_process)
            /\ processed = SubSeq(images_to_process, 1, Len(processed))
            /\ DOMAIN generated_tags \subseteq Range(processed))
    /\ [] (LoopEnded =>
            /\ processed = images_to_process
            /\ DOMAIN generated_tags = Range(processed)
            /\ Range(processed) = ImagesOfTheRun)
    /\ [][processed' # processed =>
            /\ pc = "loop"
            /\ processed' = Append(processed, images_to_process[Len(processed) + 1])
            /\ pc' \in {"inspect", "exited"}]_vars

\* A target run processed the two images of the target's closure, which are
\* not all the declared images, and ended well.
C33_Witness ==
    /\ pc = "exited" /\ diag = "success"
    /\ Len(processed) = 2
    /\ target_image # None
    /\ DOMAIN image_configs_map # Range(processed)

\* A path lies under another: it has more parts, and the other's parts are
\* its first ones.
LiesUnder(path, p) ==
    /\ Len(p) < Len(path)
    /\ \A i \in 1..Len(p) : path[i] = p[i]

\* C34: _minimize_paths returns a subset of the paths it is given in which
\* no path lies under another returned path, and every path it is given is
\* equal to or lies under some returned path.
C34_MinimalParentPaths ==
    pc = "minimize_returned" =>
        /\ minimal_paths \subseteq paths
        /\ \A p, q \in minimal_paths : ~LiesUnder(p, q)
        /\ \A path \in paths : \E p \in minimal_paths : path = p \/ LiesUnder(path, p)

\* The example of the docstring: {/a/b, /a/b/c, /d} gives {/a/b, /d}, here
\* with b in the place of d.
C34_Witness ==
    /\ pc = "minimize_returned"
    /\ paths = {<<"a", "b">>, <<"a", "b", "a">>, <<"b">>}
    /\ minimal_paths = {<<"a", "b">>, <<"b">>}


\* C35: a print-tag run whose target passed the argument checks never
\* reaches the "was not processed as expected" fallback after the loop: the
\* loop never runs to its end, and the run ends either with status 0 right
\* after the target's step or earlier with a fatal error.
C35_PrintTagFallbackUnreachable ==
    print_tag_mode =>
        /\ diag # "print_tag_not_processed"
        /\ ~(pc = "loop" /\ idx > Len(images_to_process))
        /\ (pc = "exited" /\ InLoop) =>
            \/ /\ exit_code = 0 /\ diag = "print_tag"
               /\ Last(processed) = target_image
               /\ Last(images_to_process) = target_image
               /\ terminal \in SuccessfulTerminals
            \/ /\ exit_code # 0
               /\ diag \in FatalDiags \cup {"KeyError"}

\* A print-tag run ended with status 0 after the step of its target, the
\* second image of its order.
C35_Witness ==
    /\ print_tag_mode
    /\ pc = "exited" /\ diag = "print_tag" /\ exit_code = 0
    /\ Len(processed) = 2 /\ Last(processed) = target_image


\* The orders a run on the loaded declarations and the given target can
\* work through.
OrdersOfRun ==
    IF target_image # None
    THEN get_dependency_subgraph(target_image, image_configs_map).orders
    ELSE StaticOrders(FullGraph(image_configs_map))

\* The parts of those orders a run can get through: the images up to some
\* position, all of them declared.
ProcessablePrefixes ==
    {prefix \in UNION {{SubSeq(order, 1, k) : k \in 0..Len(order)} : order \in OrdersOfRun} :
        Range(prefix) \subseteq DOMAIN image_configs_map}

\* C36: for fixed declarations, recipe contents, registry prefix and target,
\* the tag recorded for an image is the same in any two runs, whatever the
\* local store and the registry hold and however the commands turn out.
\* With the recipes this run has read, every run on the same inputs, in
\* whichever order it takes the images, however far it gets and whatever
\* the recipes of the other images are, computes for each image that this
\* run has tagged the tag this run has recorded.
C36_TagsSameInAnyTwoRuns ==
    pc = "inspect" =>
        \E read \in [Range(processed) -> Range(SearchPaths)] :
            /\ read[image_name] = dockerfile_path[1]
            /\ \A prefix \in ProcessablePrefixes :
                \A dirs \in [Range(prefix) -> Range(SearchPaths)] :
                    (\A n \in Range(prefix) \cap Range(processed) : dirs[n] = read[n]) =>
                        LET plans == PlansUnder(prefix, dirs)
                        IN  \A n \in DOMAIN plans \cap DOMAIN generated_tags :
                                plans[n].tag = generated_tags[n]

\* A full-graph run has tagged its third image after commands that came
\* back in different ways, and the images can be taken in another order.
C36_Witness ==
    /\ pc = "inspect"
    /\ target_image = None
    /\ Len(processed) = 3
    /\ Cardinality(OrdersOfRun) > 1
    /\ terminal = None /\ REPO # ""
    /\ Len(image_configs_map[image_name]) > 0


\* Every dependency named by a declaration is declared.
FullyDeclared ==
    \A n \in DOMAIN image_configs_map : DepsOf(n) \subseteq DOMAIN image_configs_map

\* The orders a run in the other mode can work through on the same
\* declarations: every full-graph order for a target run, every order of
\* every declared target for a full-graph run.
OrdersOfOtherMode ==
    IF target_image # None
    THEN StaticOrders(FullGraph(image_configs_map))
    ELSE UNION {get_dependency_subgraph(t, image_configs_map).orders :
                    t \in DOMAIN image_configs_map}

\* C37: for an acyclic, fully declared graph, the tag a target run computes
\* for an image equals the tag a full-graph run on the same inputs computes
\* for it.  With the recipes this run has read, every complete run in the
\* other mode computes for each image that this run has tagged the tag this
\* run has recorded.
C37_TargetRunTagsEqualFullRunTags ==
    (/\ pc = "inspect"
     /\ FullyDeclared
     /\ ~CycleAmong(DOMAIN image_configs_map)) =>
        \E read \in [Range(processed) -> Range(SearchPaths)] :
            /\ read[image_name] = dockerfile_path[1]
            /\ \A order \in OrdersOfOtherMode :
                \A dirs \in [Range(order) -> Range(SearchPaths)] :
                    (\A n \in Range(order) \cap Range(processed) : dirs[n] = read[n]) =>
                        LET plans == PlansUnder(order, dirs)
                        IN  \A n \in DOMAIN plans \cap DOMAIN generated_tags :
                                plans[n].tag = generated_tags[n]

\* A target run has tagged its target, which has a dependency, while the
\* declarations hold a third image that a full-graph run would process too.
C37_Witness ==
    /\ pc = "inspect"
    /\ target_image # None /\ image_name = target_image
    /\ FullyDeclared /\ ~CycleAmong(DOMAIN image_configs_map)
    /\ Len(processed) = 2
    /\ Cardinality(DOMAIN image_configs_map) = 3
    /\ Len(image_configs_map[image_name]) > 0


\* The NAME=VALUE strings a build command carries, in the order of its
\* --build-arg flags.
BuildArgValues(argv) ==
    LET flags == SelectSeq([k \in 1..Len(argv) |-> k],
                           LAMBDA k : argv[k] = "--build-arg")
    IN  [i \in DOMAIN flags |-> argv[flags[i] + 1]]

\* C38: the NAME=VALUE pairs fed to the content hash of an image are the
\* pairs its build receives as --build-arg flags, no more and no fewer: the
\* hash takes them sorted, the build in the order of the dependency map, so
\* the digest in the image's tag covers every build argument of its build
\* and nothing else.
C38_HashedPairsAreBuildArgs ==
    /\ pc \in {"inspect", "manifest", "pull", "build", "push"} =>
        LET hashed == BuildArgsForShaCalc(image_configs_map[image_name], generated_tags)
        IN  /\ current_tag = get_image_tag(image_name,
                                           calculate_sha256(dockerfile_path, hashed))
            /\ Len(hashed) = Len(build_args_for_manage)
            /\ Range(hashed) =
                   {build_args_for_manage[i][1] \o "=" \o build_args_for_manage[i][2] :
                        i \in DOMAIN build_args_for_manage}
            /\ \A i \in DOMAIN build_args_for_manage :
                   build_args_for_manage[i][1] = image_configs_map[image_name][i][1]
    /\ (cmds # <<>> /\ Kind(Last(cmds)) = "buildx") =>
        LET hashed == BuildArgsForShaCalc(image_configs_map[image_name], generated_tags)
            passed == BuildArgValues(Last(cmds).argv)
        IN  /\ Len(passed) = Len(hashed)
            /\ Range(passed) = Range(hashed)
            /\ \A i, j \in DOMAIN hashed :
                   i < j => ArgRank(SortedDeps(image_configs_map[image_name])[i][1])
                            < ArgRank(SortedDeps(image_configs_map[image_name])[j][1])
            /\ \A i \in DOMAIN passed :
                   passed[i] = image_configs_map[image_name][i][1] \o "="
                               \o generated_tags[image_configs_map[image_name][i][2]]

\* An image whose dependency map lists FROM before BASE has been built: the
\* hash took the pairs in the other order than the build.
C38_Witness ==
    /\ pc = "push"
    /\ cmds # <<>> /\ Kind(Last(cmds)) = "buildx" /\ Last(cmds).result = "ok"
    /\ Len(image_configs_map[image_name]) = 2
    /\ image_configs_map[image_name][1][1] = ArgNames[2]
    /\ BuildArgValues(Last(cmds).argv)
       # BuildArgsForShaCalc(image_configs_map[image_name], generated_tags)


\* The steps a call of manage_docker_image can still take from a position.
StepsLeft(p) ==
    CASE p = "loop" -> 6
      [] p = "inspect" -> 5
      [] p = "manifest" -> 4
      [] p = "pull" -> 3
      [] p = "build" -> 3
      [] p = "push" -> 2
      [] OTHER -> 0

\* A bound on the steps the loop can take.
LoopBound == 6 * (Cardinality(AllNames) + 1)

\* A bound on the steps the run can still take: it is never negative and
\* every step lowers it.
Measure ==
    CASE pc = "exited" -> 0
      [] pc = "parse_args" -> LoopBound + 5
      [] pc = "load_config" -> LoopBound + 4
      [] pc = "load_image_configs" -> LoopBound + 3
      [] pc = "validate" -> LoopBound + 2
      [] pc = "order" -> LoopBound + 1
      [] OTHER -> 6 * (Len(images_to_process) + 1 - idx) + StepsLeft(pc)

\* The worklist of get_dependency_subgraph, started at target t, marks each
\* name once at most, marks what the target reaches and nothing else, and
\* comes to an end, on a graph with a cycle too.
WorklistVisitsOnce(t) ==
    LET full_graph == FullGraph(image_configs_map)
        marked == VisitSequence(full_graph, {t}, <<>>)
    IN  /\ NoRepeats(marked)
        /\ Len(marked) <= Cardinality(SorterNodes(full_graph) \cup {t})
        /\ Range(marked) = VisitNodes(full_graph, {t}, {})
        /\ Range(marked) = ClosureOf({t})

\* C39: every run over a finite set of declarations terminates when each
\* external command returns.  Every step of a run lowers a bound that is
\* never negative and is zero exactly when the run has exited, so a run
\* takes a bounded number of steps; the worklist of get_dependency_subgraph
\* marks each name once at most and finishes on cyclic graphs too, where
\* the cycle is then reported; and the loop of main takes one step per
\* image at most.
C39_EveryRunTerminates ==
    /\ [] (Measure \in 0..(LoopBound + 5))
    /\ [] (Measure = 0 <=> pc = "exited")
    /\ [][Measure' < Measure]_vars
    /\ [] (pc = "order" =>
            \A t \in DOMAIN image_configs_map :
                /\ WorklistVisitsOnce(t)
                /\ CycleAmong(ClosureOf({t})) =>
                       get_dependency_subgraph(t, image_configs_map).cycle)
    /\ [] (InLoop =>
            /\ idx <= Len(images_to_process) + 1
            /\ Len(processed) <= idx
            /\ Len(processed) <= Len(images_to_process))

\* A target run over declarations with a cycle in the target's closure has
\* ended with the cycle reported.
C39_Witness ==
    /\ pc = "exited" /\ diag = "cycle"
    /\ target_image \in DOMAIN image_configs_map
    /\ CycleAmong(ClosureOf({target_image}))
    /\ Cardinality(ClosureOf({target_image})) > 1


\* The steps of list_external_mounts, as opposed to those of the
\* _minimize_paths call that ends it.
Scanning == pc \in {"scan_loop", "entries", "chain"}

\* C40: list_external_mounts terminates on any finite directory tree, with
\* symlink cycles and with external directories that link to each other:
\* each directory is walked at most once, so there are no more walks than
\* directories; an external directory is queued only the first time it is
\* found; and the following of one symlink chain stops when a link repeats,
\* is broken, or the chain reaches something that is no symlink.
C40_EachDirectoryWalkedOnce ==
    /\ [] (NoRepeats(walked) /\ Len(walked) <= Cardinality(Dirs))
    /\ [][Len(worklist') > Len(worklist) =>
            /\ Last(worklist') \notin external_paths
            /\ Last(worklist') \notin scanned
            /\ Last(worklist') \notin Range(worklist)]_vars
    /\ [][(pc = "chain" /\ pc' = "entries") =>
            \/ current_path \in visited_in_chain
            \/ ~is_symlink(current_path)
            \/ ~exists(Join(Parent(current_path), readlink(current_path)))]_vars

====
